---------------------------- MODULE Spec2Model ----------------------------
(***************************************************************************)
(* Report scoring and deduplication of the urban-hazard report server.     *)
(*                                                                         *)
(* Numbers.  The code computes in floating point; the model computes in    *)
(* exact decimal fixed point:                                              *)
(*   - detector confidences and severities, and the fused severity and    *)
(*     confidence, are integers in thousandths (700 is 0.7);               *)
(*   - the severity handed to the criticality combiner is in hundredths;   *)
(*   - combiner weights are in twentieths (12, 5, 3 is 0.6, 0.25, 0.15).   *)
(* Locations are points on one meridian, given by their distance in metres *)
(* from a reference point, so the geodesic distance of two of them is the  *)
(* absolute difference.                                                    *)
(* user_ids is a list whose order comes from iterating a Python set; no    *)
(* code reads a position of it, so it is kept as a bag (a list up to       *)
(* order, duplicates still visible).                                       *)
(***************************************************************************)
EXTENDS Integers, Sequences, FiniteSets, Bags, TLC

VARIABLES
    reports,     \* the "reports" table: report_id -> row
    nextId,      \* number of report ids generated so far
    nextImage,   \* number of image URLs generated so far
    fuseIn,      \* process_image: the two detectors' results
    fuseOut,     \* process_image: the fused analysis, or None
    critIn,      \* compute_criticality_score: its arguments
    critOut,     \* compute_criticality_score: its result, or None
    mergeIn,     \* merge_reports: its arguments
    mergeOut,    \* merge_reports: the update it writes, or None
    aggIn,       \* a severity aggregator: the detector and the boxes it found
    aggOut,      \* a severity aggregator: its (confidence, severity), or None
    cache,       \* impact_cache.db, table "cache": key -> row
    clock,       \* time.time(), in half seconds
    ticks,       \* number of times the clock has advanced
    impOut,      \* calculate_impact_score: what the last call did, or None
    subOut,      \* report_issue: the last request and its response, or None
    futures,     \* process_image: the two detector tasks of the thread pool
    joinPc,      \* process_image: where the submitting thread is
    joinOut,     \* process_image: what it returned, or None
    raceTable,   \* concurrent calls: the rows of table "cache"
    raceLock,    \* concurrent calls: the call holding the write lock of the database, or 0
    raceCalls,   \* concurrent calls: each call's position, key and result
    lastWriter,  \* concurrent calls: per key, the call whose REPLACE committed last, or 0
    reqIn,       \* report_issue: one request and what its collaborators answer
    reqOut,      \* report_issue: the calls it made and its response, or None
    nearIn,      \* find_nearby_reports: the stored reports and the arguments
    nearOut,     \* find_nearby_reports: the ids of the reports returned, or None
    urgIn,       \* urgency normalisation: the ages of two calls
    urgOut,      \* urgency normalisation: the results of the calls made so far
    pipeIn,      \* process_report_image: the analyses of two submissions
    pipeOut,     \* process_report_image: the results returned so far
    prioIn,      \* get_priority_reports: the reports table and the database outcome
    prioOut,     \* get_priority_reports: the list returned, once returned
    mrgRow,      \* concurrent merges: the stored report
    mrgCalls,    \* concurrent merges: each call's position, arguments and snapshot
    mrgWrites,   \* concurrent merges: the calls that have written, in order
    lcReports,   \* list caching: the reports table, report id -> row or None
    lcNext,      \* list caching: number of reports created so far
    lcCache,     \* list caching: the response cache, key -> response or None
    lcOwed,      \* list caching: keys whose next response must show a completed write
    lcOut        \* list caching: the last list response served, or None

storeVars == <<reports, nextId, nextImage>>
fuseVars  == <<fuseIn, fuseOut>>
critVars  == <<critIn, critOut>>
mergeVars == <<mergeIn, mergeOut>>
aggVars   == <<aggIn, aggOut>>
impVars   == <<cache, clock, ticks, impOut>>
subVars   == <<subOut>>
joinVars  == <<futures, joinPc, joinOut>>
raceVars  == <<raceTable, raceLock, raceCalls, lastWriter>>
reqVars   == <<reqIn, reqOut>>
nearVars  == <<nearIn, nearOut>>
urgVars   == <<urgIn, urgOut>>
pipeVars  == <<pipeIn, pipeOut>>
prioVars  == <<prioIn, prioOut>>
lostVars  == <<mrgRow, mrgCalls, mrgWrites>>
listVars  == <<lcReports, lcNext, lcCache, lcOwed, lcOut>>
vars == <<reports, nextId, nextImage, fuseIn, fuseOut, critIn, critOut,
          mergeIn, mergeOut, aggIn, aggOut, cache, clock, ticks, impOut, subOut,
          futures, joinPc, joinOut,
          raceTable, raceLock, raceCalls, lastWriter,
          reqIn, reqOut,
          nearIn, nearOut,
          urgIn, urgOut,
          pipeIn, pipeOut,
          prioIn, prioOut,
          mrgRow, mrgCalls, mrgWrites,
          lcReports, lcNext, lcCache, lcOwed, lcOut>>

\* An Optional value: None, or Some(x)
None == <<>>
Some(x) == <<x>>

Max(a, b) == IF a >= b THEN a ELSE b
Min(a, b) == IF a <= b THEN a ELSE b

\* math.ceil(num / den) for den > 0
Ceil(num, den) == -((-num) \div den)

(***************************************************************************)
(* Cross-hazard fusion (process_image).                                    *)
(***************************************************************************)

\* Detector outputs are drawn from 0.0, 0.1, ..., 1.0.
Tenths == {100 * k : k \in 0..10}

\* severity of one hazard, confidence of the other
Regime1MixedCond(pc, ps, tc, ts) ==
    (ps >= 700 \/ ts >= 700) /\ (pc >= 600 \/ tc >= 600)

\* final.py:123
Regime1Cond(pc, ps, tc, ts) ==
    (ps >= 700 /\ pc >= 600) \/ (ts >= 700 /\ tc >= 600)

\* final.py:128
Regime2Cond(ps, ts) == ps >= 400 /\ ts >= 400

\* the moderate-pair test tried before the dominant-hazard test
RegimeSwapped(pc, ps, tc, ts) ==
    IF Regime2Cond(ps, ts) THEN 2
    ELSE IF Regime1Cond(pc, ps, tc, ts) THEN 1
    ELSE 3

\* final.py:123-144: which branch of the if / elif / else runs
Regime(pc, ps, tc, ts) ==
    IF Regime1Cond(pc, ps, tc, ts) THEN 1
    ELSE IF Regime2Cond(ps, ts) THEN 2
    ELSE 3

\* final.py:119-144: severity_score_float
OverallSeverity(pc, ps, tc, ts) ==
    CASE Regime(pc, ps, tc, ts) = 1 -> Max(ps, ts)
      [] Regime(pc, ps, tc, ts) = 2 -> Min((ps + ts) \div 2 + 200, 1000)
      [] OTHER -> Min((ps * pc) \div 1000 + (ts * tc) \div 1000, 1000)

\* the default branch keeping the average of line 120
OverallConfidenceAveraged(pc, ps, tc, ts) ==
    CASE Regime(pc, ps, tc, ts) = 1 -> Max(pc, tc)
      [] OTHER -> (pc + tc) \div 2

\* final.py:120-144: overall_confidence
OverallConfidence(pc, ps, tc, ts) ==
    CASE Regime(pc, ps, tc, ts) = 1 -> Max(pc, tc)
      [] Regime(pc, ps, tc, ts) = 2 -> (pc + tc) \div 2
      [] OTHER -> IF ps > ts THEN pc ELSE tc

\* final.py:149: max(1, math.ceil(severity_score_float * 100))
SeverityScore(sev) == Max(1, Ceil(sev, 10))

\* final.py:153-162
Category(pc, tc) ==
    IF pc > tc /\ pc > 500 THEN "potholes"
    ELSE IF tc > pc /\ tc > 500 THEN "trash_overflow"
    ELSE IF pc > 300 /\ tc > 300
         THEN (IF pc > tc THEN "potholes" ELSE "trash_overflow")
    ELSE "potholes"

\* final.py:118-162: the numeric part of process_image's result
FusedAnalysis(pc, ps, tc, ts) ==
    [regime         |-> Regime(pc, ps, tc, ts),
     severity       |-> OverallSeverity(pc, ps, tc, ts),
     confidence     |-> OverallConfidence(pc, ps, tc, ts),
     severity_score |-> SeverityScore(OverallSeverity(pc, ps, tc, ts)),
     category       |-> Category(pc, tc)]

FuseIdle == fuseIn = None /\ fuseOut = None

InitFuse ==
    /\ fuseIn \in {Some(d) : d \in [pothole_conf : Tenths, pothole_sev : Tenths,
                                     trash_conf : Tenths, trash_sev : Tenths]}
    /\ fuseOut = None

\* final.py:105-162: both detector results are in, fuse them
ProcessImage ==
    /\ fuseIn # None
    /\ fuseOut = None
    /\ fuseOut' = Some(FusedAnalysis(fuseIn[1].pothole_conf, fuseIn[1].pothole_sev,
                                     fuseIn[1].trash_conf, fuseIn[1].trash_sev))
    /\ UNCHANGED fuseIn

(***************************************************************************)
(* Detection severity aggregators (get_confidence_and_severity for         *)
(* potholes, analyze_waste for trash).  A box is one detected instance:    *)
(* its label, its confidence in thousandths and its area in hundredths of  *)
(* the image area.  An aggregated severity is in millionths.               *)
(***************************************************************************)

\* Largest number of boxes a detector returns.
MaxBoxes == 2

\* trash_agent1.py:32-36
RECYCLABLE == {"cardboard_box", "can", "plastic_bottle_cap", "plastic_bottle",
               "reuseable_paper"}
NON_RECYCLABLE == {"plastic_bag", "scrap_paper", "stick", "plastic_cup", "snack_bag",
                   "plastic_box", "straw", "plastic_cup_lid", "scrap_plastic",
                   "cardboard_bowl", "plastic_cultery"}
HAZARDOUS == {"battery", "chemical_spray_can", "chemical_plastic_bottle",
              "chemical_plastic_gallon", "light_bulb", "paint_bucket"}

\* trash_agent1.py:38-42, in tenths
CATEGORY_WEIGHTS == [recyclable |-> 5, non_recyclable |-> 7, hazardous |-> 10]

\* trash_agent1.py:46-54: get_category
GetCategory(label) ==
    IF label \in RECYCLABLE THEN "recyclable"
    ELSE IF label \in NON_RECYCLABLE THEN "non_recyclable"
    ELSE IF label \in HAZARDOUS THEN "hazardous"
    ELSE "unknown"

\* trash_agent1.py:79: CATEGORY_WEIGHTS.get(category, 0.5), in tenths
CategoryWeight(category) ==
    IF category \in DOMAIN CATEGORY_WEIGHTS THEN CATEGORY_WEIGHTS[category] ELSE 5

\* the mean in place of the maximum
MeanConfidence(boxes) ==
    LET sum[i \in 0..Len(boxes)] == IF i = 0 THEN 0 ELSE sum[i - 1] + boxes[i].conf
    IN  sum[Len(boxes)] \div Len(boxes)

\* pothole_agent.py:63 and trash_agent1.py:94: max(confidences)
MaxConfidence(boxes) ==
    CHOOSE c \in {boxes[i].conf : i \in DOMAIN boxes} :
        \A i \in DOMAIN boxes : boxes[i].conf <= c

\* pothole_agent.py:45-58,66: severity_area_sum + severity_count_sum,
\* each box adding (box_area / img_area) * conf + 0.1 * conf
PotholeSeveritySum(boxes) ==
    LET sum[i \in 0..Len(boxes)] ==
            IF i = 0 THEN 0
            ELSE sum[i - 1] + boxes[i].conf * (10 * boxes[i].area + 100)
    IN  sum[Len(boxes)]

\* trash_agent1.py:67-85,97: severity_area_sum + severity_count_sum, each box
\* adding (box_area / img_area) * weight * conf + 0.05 * weight * conf
WasteSeveritySum(boxes) ==
    LET sum[i \in 0..Len(boxes)] ==
            IF i = 0 THEN 0
            ELSE sum[i - 1] + CategoryWeight(GetCategory(boxes[i].label))
                                * boxes[i].conf * (boxes[i].area + 5)
    IN  sum[Len(boxes)]

\* the override only for a confidence above 0.9
HazardousDetectedAbove900(boxes) ==
    \E i \in DOMAIN boxes :
        GetCategory(boxes[i].label) = "hazardous" /\ boxes[i].conf > 900

\* trash_agent1.py:87-89: hazardous_detected
HazardousDetected(boxes) ==
    \E i \in DOMAIN boxes :
        GetCategory(boxes[i].label) = "hazardous" /\ boxes[i].conf > 500

\* pothole_agent.py:35-71: get_confidence_and_severity
GetConfidenceAndSeverityResult(boxes) ==
    IF Len(boxes) = 0
    THEN [confidence |-> 0, severity |-> 0]
    ELSE [confidence |-> MaxConfidence(boxes),
          severity   |-> Min(PotholeSeveritySum(boxes), 1000000)]

\* trash_agent1.py:56-106: analyze_waste
AnalyzeWasteResult(boxes) ==
    IF Len(boxes) = 0
    THEN [confidence |-> 0, severity |-> 0]
    ELSE [confidence |-> MaxConfidence(boxes),
          severity   |-> IF HazardousDetected(boxes)
                         THEN Max(Min(WasteSeveritySum(boxes), 1000000), 600000)
                         ELSE Min(WasteSeveritySum(boxes), 1000000)]

\* Labels, confidences and areas a box is drawn from; "glass_shard" is in none
\* of the three lists.
WasteLabelInputs == {"battery", "can", "plastic_bag", "glass_shard"}
ConfidenceInputs == {500, 600, 1000}
AreaInputs == {1, 30, 100}

BoxesOf(labels) ==
    UNION {[1..n -> [label : labels, conf : ConfidenceInputs, area : AreaInputs]] :
              n \in 0..MaxBoxes}

AggIdle == aggIn = None /\ aggOut = None

InitAgg ==
    /\ aggIn \in {Some([detector |-> "pothole", boxes |-> b]) : b \in BoxesOf({"pothole"})}
                 \cup {Some([detector |-> "trash", boxes |-> b]) :
                          b \in BoxesOf(WasteLabelInputs)}
    /\ aggOut = None

\* one call of get_confidence_and_severity
GetConfidenceAndSeverity ==
    /\ aggIn # None
    /\ aggIn[1].detector = "pothole"
    /\ aggOut = None
    /\ aggOut' = Some(GetConfidenceAndSeverityResult(aggIn[1].boxes))
    /\ UNCHANGED aggIn

\* one call of analyze_waste
AnalyzeWaste ==
    /\ aggIn # None
    /\ aggIn[1].detector = "trash"
    /\ aggOut = None
    /\ aggOut' = Some(AnalyzeWasteResult(aggIn[1].boxes))
    /\ UNCHANGED aggIn

(***************************************************************************)
(* Impact estimator (calculate_impact_score) and its SQLite cache.         *)
(* The clock counts half seconds, so that int(time.time()) is not the      *)
(* identity.  A call is taken at one instant of the clock.  pi is taken as *)
(* 355/113 and the two normalised densities are kept to four decimals.     *)
(***************************************************************************)

\* Largest number of times the clock advances.
MaxTicks == 2

\* impact.py:17, in seconds
CACHE_TTL == 24 * 3600

\* impact.py:125-126
MAX_POP_DENSITY == 7000
MAX_VEH_DENSITY == 2000

\* impact.py:92 and 115: the default estimates
DefaultPopulation(radius_km) == 1200 * radius_km * radius_km
DefaultVehicles(radius_km) == 800 * radius_km

\* impact.py:77-92.  pop_resp is None when the request or its decoding raises,
\* else Some(sum)
Population(pop_resp, radius_km) ==
    IF pop_resp = None \/ pop_resp[1] = 0
    THEN DefaultPopulation(radius_km)
    ELSE pop_resp[1]

\* a population failure discarding the vehicle answer too
VehiclesUnlessPopulationFailed(pop_resp, road_resp, radius_km) ==
    IF pop_resp = None \/ road_resp = None \/ (road_resp[1] * 200) \div 10 <= 0
    THEN DefaultVehicles(radius_km)
    ELSE (road_resp[1] * 200) \div 10

\* impact.py:99-116.  road_resp is None when the request or its decoding
\* raises, else Some(number of road elements)
Vehicles(pop_resp, road_resp, radius_km) ==
    IF road_resp = None \/ (road_resp[1] * 200) \div 10 <= 0
    THEN DefaultVehicles(radius_km)
    ELSE (road_resp[1] * 200) \div 10

\* impact.py:122,128-129: max(area_km2, 1), in units of 1/113 km^2
AreaFloor113(radius_km) == Max(355 * radius_km * radius_km, 113)

\* impact.py:128,137: min(pop_density / MAX_POP_DENSITY, 1.0), in units of 10^-4
PopNorm(population, radius_km) ==
    Min(10000, (population * 1130)
                   \div ((MAX_POP_DENSITY \div 1000) * AreaFloor113(radius_km)))

\* impact.py:129,138: min(veh_density / MAX_VEH_DENSITY, 1.0), in units of 10^-4
VehNorm(vehicles, radius_km) ==
    Min(10000, (vehicles * 1130)
                   \div ((MAX_VEH_DENSITY \div 1000) * AreaFloor113(radius_km)))

\* the least n in lo..hi with (n / 100)^2 >= x / 10^5, by bisection
RECURSIVE LeastRoot(_, _, _)
LeastRoot(x, lo, hi) ==
    IF lo = hi
    THEN lo
    ELSE LET mid == (lo + hi) \div 2
         IN  IF 10 * mid * mid >= x
             THEN LeastRoot(x, lo, mid)
             ELSE LeastRoot(x, mid + 1, hi)

\* impact.py:136-142: max(1, ceil(100 * sqrt(0.6 * pop + 0.4 * veh)))
ImpactScore(population, vehicles, radius_km) ==
    Max(1, LeastRoot(6 * PopNorm(population, radius_km)
                     + 4 * VehNorm(vehicles, radius_km), 0, 100))

\* impact.py:77-154: the result computed on a cache miss
LiveResult(key, pop_resp, road_resp) ==
    LET population == Population(pop_resp, key.radius_km)
        vehicles   == Vehicles(pop_resp, road_resp, key.radius_km)
    IN  [lat |-> key.lat, lon |-> key.lon, radius_km |-> key.radius_km,
         population_estimate |-> population,
         vehicle_estimate    |-> vehicles,
         impact_score        |-> ImpactScore(population, vehicles, key.radius_km),
         source              |-> "live"]

\* the test that lets an entry of exactly CACHE_TTL seconds pass
IsFreshInclusive(row, now) == now - 2 * row.timestamp <= 2 * CACHE_TTL

\* impact.py:42: time.time() - ts < CACHE_TTL, the clock being in half seconds
IsFresh(row, now) == now - 2 * row.timestamp < 2 * CACHE_TTL

\* impact.py:34-44: get_cache.  The outcome is an error raised, or the value
\* returned (None for no row or a stale one); the value of a stale row is not
\* decoded
GetCache(key, db) ==
    IF db = "read_fails"
    THEN [error |-> "sqlite3.Error", value |-> None]
    ELSE IF key \in DOMAIN cache /\ IsFresh(cache[key], clock)
    THEN (IF db = "undecodable"
          THEN [error |-> "JSONDecodeError", value |-> None]
          ELSE [error |-> "", value |-> Some(cache[key].value)])
    ELSE [error |-> "", value |-> None]

\* impact.py:46-52: the row set_cache writes; int(time.time()) drops the half
\* second.  written_at keeps the instant of the write (not a column of the
\* table).
CacheRow(value) ==
    [value |-> value, timestamp |-> clock \div 2, written_at |-> clock]

\* Provider answers, and what the cache database does during the call: it
\* works, the SELECT raises, the stored value read cannot be decoded by
\* json.loads, or the REPLACE raises.
ImpactKeys == {[lat |-> 22, lon |-> 87, radius_km |-> r] : r \in {1, 2}}
PopulationResponses == {None, Some(0), Some(9000)}
RoadResponses == {None, Some(0), Some(100)}
DbOutcomes == {"ok", "read_fails", "undecodable", "write_fails"}
\* The clock advances by half a second or by half a second less than CACHE_TTL.
TickInputs == {1, 2 * CACHE_TTL - 1}

ImpIdle == cache = <<>> /\ clock = 0 /\ ticks = 0 /\ impOut = None

InitImp == ImpIdle

\* impact.py:55-163: one call of calculate_impact_score.  impOut records the
\* instant of the call, when the row found under the key (if any) had been
\* written, the exception raised (if any), the result returned, and the
\* provider requests made with what each was answered.
CalculateImpactScore(key, pop_resp, road_resp, db) ==
    LET cached == GetCache(key, db)
        result == LiveResult(key, pop_resp, road_resp)
        requested == <<[provider |-> "worldpop", response |-> pop_resp],
                       [provider |-> "overpass", response |-> road_resp]>>
        seen == IF key \in DOMAIN cache THEN Some(cache[key].written_at) ELSE None
    IN  IF cached.error # ""
        THEN /\ impOut' = Some([key |-> key, at |-> clock, seen |-> seen,
                                error |-> cached.error, result |-> None,
                                requests |-> <<>>])
             /\ UNCHANGED <<cache, clock, ticks>>
        ELSE IF cached.value # None
        THEN /\ impOut' = Some([key |-> key, at |-> clock, seen |-> seen,
                                error |-> "",
                                result |-> Some([cached.value[1] EXCEPT !.source = "cache"]),
                                requests |-> <<>>])
             /\ UNCHANGED <<cache, clock, ticks>>
        ELSE IF db = "write_fails"
        THEN /\ impOut' = Some([key |-> key, at |-> clock, seen |-> seen,
                                error |-> "sqlite3.Error", result |-> None,
                                requests |-> requested])
             /\ UNCHANGED <<cache, clock, ticks>>
        ELSE /\ impOut' = Some([key |-> key, at |-> clock, seen |-> seen,
                                error |-> "", result |-> Some(result),
                                requests |-> requested])
             /\ cache' = [k \in DOMAIN cache \cup {key} |->
                            IF k = key THEN CacheRow(result) ELSE cache[k]]
             /\ UNCHANGED <<clock, ticks>>

\* time passes
Tick(d) ==
    /\ ticks < MaxTicks
    /\ clock' = clock + d
    /\ ticks' = ticks + 1
    /\ UNCHANGED <<cache, impOut>>

(***************************************************************************)
(* Criticality combiner (compute_criticality_score).                       *)
(***************************************************************************)

SecondsPerDay == 86400
UrgencyCapDays == 30
ReportCap == 10

\* the normalisation without the max(0.0, age_seconds)
NormalizeUrgencyNoFloor(age_seconds) ==
    Min(UrgencyCapDays, age_seconds \div SecondsPerDay)

\* criticality_score.py:9-19: normalize_urgency, in thirtieths (of cap_days);
\* exact for ages of whole days
NormalizeUrgency(age_seconds) ==
    Min(UrgencyCapDays, Max(0, age_seconds) \div SecondsPerDay)

\* round(10^5 * log1p(n) / log1p(10)) for n = 1..9
Log1pRatio == <<28906, 45816, 57813, 67119, 74722, 81151, 86719, 91631, 96025>>

\* criticality_score.py:21-33: normalize_reports, in units of 10^-5
NormalizeReports(count) ==
    IF count <= 0 THEN 0
    ELSE IF count >= ReportCap THEN 100000
    ELSE Log1pRatio[count]

\* criticality_score.py:60
DefaultWeights == [impact |-> 12, urgency |-> 5, reports |-> 3]

\* criticality_score.py:59-60
EffectiveWeights(weights) == IF weights = None THEN DefaultWeights ELSE weights[1]

\* criticality_score.py:62
WeightSum(w) == w.impact + w.urgency + w.reports

\* only a negative sum is rejected
WeightSumRejectedNegativeOnly(w) == WeightSum(w) < 0

\* criticality_score.py:63
WeightSumRejected(w) == WeightSum(w) <= 0

\* criticality_score.py:72: clamp severity to [0, 1], in hundredths
ClampSeverity(severity) == Max(0, Min(100, severity))

\* criticality_score.py:76: impact / 100 clamped to [0, 1], in hundredths
ImpactNorm(impact) == Max(0, Min(100, impact))

\* criticality_score.py:80-86
UrgencyNorm(age) == IF age = None THEN 0 ELSE NormalizeUrgency(age[1])

\* criticality_score.py:65,93-97: numerator of raw_score * 100 over the
\* denominator 300000 * WeightSum(w)
RawScoreNum(sev, impact_norm, urgency_norm, reports_norm, w) ==
    sev * (w.impact * impact_norm * 3000
           + w.urgency * urgency_norm * 10000
           + w.reports * reports_norm * 3)

RawScoreDen(w) == 300000 * WeightSum(w)

\* criticality_score.py:59-121
ComputeCriticalityScore(severity, impact, age_seconds, report_count, weights) ==
    LET w == EffectiveWeights(weights)
    IN  IF WeightSumRejected(w)
        THEN [error |-> "ValueError", criticality |-> 0, weights |-> w]
        ELSE IF WeightSum(w) = 0
        THEN [error |-> "ZeroDivisionError", criticality |-> 0, weights |-> w]
        ELSE [error |-> "",
              criticality |->
                  Max(1, Ceil(RawScoreNum(ClampSeverity(severity),
                                          ImpactNorm(impact),
                                          UrgencyNorm(age_seconds),
                                          NormalizeReports(report_count), w),
                              RawScoreDen(w))),
              weights |-> w]

\* Largest report_count drawn.
MaxReportCount == 11

SeverityInputs == {-50, 0, 10, 40, 70, 71, 90, 100, 150, 5500}
ImpactInputs == {-10, 0, 1, 50, 79, 80, 90, 100, 120}
AgeInputs == {None} \cup {Some(d * SecondsPerDay) : d \in {-1, 0, 2, 15, 24, 30, 45}}
WeightInputs ==
    {None} \cup
    {Some([impact |-> t[1], urgency |-> t[2], reports |-> t[3]]) :
        t \in {<<8, 8, 4>>, <<1, 1, 1>>, <<20, 0, 0>>, <<0, 0, 1>>, <<3, -1, -1>>,
               <<0, 0, 0>>, <<-1, 0, 0>>, <<5, -5, 0>>, <<-1, 3, -1>>}}

CritIdle == critIn = None /\ critOut = None

InitCrit ==
    /\ critIn \in {Some(a) : a \in [severity : SeverityInputs, impact : ImpactInputs,
                                    age_seconds : AgeInputs,
                                    report_count : 1..MaxReportCount,
                                    weights : WeightInputs]}
    /\ critOut = None

\* one call of compute_criticality_score
ComputeCriticality ==
    /\ critIn # None
    /\ critOut = None
    /\ critOut' = Some(ComputeCriticalityScore(critIn[1].severity, critIn[1].impact,
                                               critIn[1].age_seconds,
                                               critIn[1].report_count,
                                               critIn[1].weights))
    /\ UNCHANGED critIn

(***************************************************************************)
(* Submission pipeline (AIService.process_report_image).                   *)
(***************************************************************************)

\* The detector results a submitted image may give: a severe pothole (fused
\* severity 0.9), and a shallow one beside some litter (fused severity 0.17).
DetectionInputs ==
    { [pothole_conf |-> 900, pothole_sev |-> 900, trash_conf |-> 0,   trash_sev |-> 0],
      [pothole_conf |-> 700, pothole_sev |-> 100, trash_conf |-> 200, trash_sev |-> 500] }

\* The impact scores calculate_impact_score may give (an integer in 1..100).
ImpactScores == {50, 100}

\* ai_service.py:77-132: the image analysis, then the combiner.  The combiner's
\* severity argument is image_analysis["severity_score"], the integer in 1..100,
\* as it stands (ai_service.py:108); in hundredths that is severity_score * 100.
ProcessReportImage(det, impact_score, age_seconds, report_count) ==
    LET image_analysis == FusedAnalysis(det.pothole_conf, det.pothole_sev,
                                        det.trash_conf, det.trash_sev)
        criticality_result ==
            ComputeCriticalityScore(image_analysis.severity_score * 100, impact_score,
                                    age_seconds, report_count, None)
    IN  [severity_score    |-> image_analysis.severity_score,
         category          |-> image_analysis.category,
         criticality_score |-> criticality_result.criticality,
         impact_score      |-> impact_score]

(***************************************************************************)
(* Report store (ReportService) and the report_issue endpoint.             *)
(***************************************************************************)

\* Number of users.
MaxUsers == 2
\* Largest number of accepted submissions (uploaded images).
MaxSubmissions == 2

Users == 1..MaxUsers
\* Two places: 0 and 51 are farther apart than the default radius.
Points == {0, 51}
Statuses == {"waiting_for_attention", "got_the_attention", "resolved"}

\* report_service.py:197
DefaultRadiusMeters == 50
\* report_service.py:248
CrowdPointsPerPerson == 5
CrowdFactorCap == 30
\* report_service.py:249
CriticalityCap == 100

\* report_service.py:227: geodesic(target_point, report_point).meters
Distance(a, b) == IF a >= b THEN a - b ELSE b - a

\* the scan without the status filter
NearbyInAnyStatus(table, location, radius_meters, category) ==
    {id \in DOMAIN table :
        /\ category = None \/ table[id].category = category[1]
        /\ Distance(location, table[id].location) <= radius_meters}

\* report_service.py:206-232, over a given table
NearbyIn(table, location, radius_meters, category) ==
    {id \in DOMAIN table :
        /\ category = None \/ table[id].category = category[1]
        /\ table[id].status # "resolved"
        /\ Distance(location, table[id].location) <= radius_meters}

\* report_service.py:194-236: find_nearby_reports
FindNearbyReports(location, radius_meters, category) ==
    NearbyIn(reports, location, radius_meters, category)

\* report_service.py:29-42: the row create_report inserts
CreateReportRow(report_id, user_id, report_data) ==
    [report_id         |-> report_id,
     user_ids          |-> SetToBag({user_id}),
     people_reported   |-> 1,
     category          |-> report_data.category,
     images            |-> report_data.images,
     location          |-> report_data.location,
     criticality_score |-> report_data.criticality_score,
     status            |-> "waiting_for_attention"]

\* the new id appended without the set()
UpdatedUserIdsNoDedup(existing_report, new_user_id) ==
    existing_report.user_ids (+) SetToBag({new_user_id})

\* report_service.py:242: list(set(existing_report.user_ids + [new_user_id]))
UpdatedUserIds(existing_report, new_user_id) ==
    SetToBag(BagToSet(existing_report.user_ids) \cup {new_user_id})

\* report_service.py:243
UpdatedImages(existing_report, new_report_data) ==
    existing_report.images \o new_report_data.images

\* the crowd factor counted on the reporters before the union
PeopleReportedBeforeUnion(existing_report, new_user_id) ==
    BagCardinality(existing_report.user_ids)

\* report_service.py:244: len(updated_user_ids)
PeopleReported(existing_report, new_user_id) ==
    BagCardinality(UpdatedUserIds(existing_report, new_user_id))

\* the incoming score alone, the stored one forgotten
BaseCriticalityIncomingOnly(existing_report, new_report_data) ==
    new_report_data.criticality_score

\* report_service.py:247
BaseCriticality(existing_report, new_report_data) ==
    Max(existing_report.criticality_score, new_report_data.criticality_score)

\* report_service.py:248
CrowdFactor(people_reported) ==
    Min(people_reported * CrowdPointsPerPerson, CrowdFactorCap)

\* the sum written without the cap
NewCriticalityUncapped(base_criticality, crowd_factor) ==
    base_criticality + crowd_factor

\* report_service.py:249
NewCriticality(base_criticality, crowd_factor) ==
    Min(CriticalityCap, base_criticality + crowd_factor)

\* report_service.py:242-257: update_dict
MergeUpdate(existing_report, new_report_data, new_user_id) ==
    [user_ids          |-> UpdatedUserIds(existing_report, new_user_id),
     people_reported   |-> PeopleReported(existing_report, new_user_id),
     images            |-> UpdatedImages(existing_report, new_report_data),
     criticality_score |->
         NewCriticality(BaseCriticality(existing_report, new_report_data),
                        CrowdFactor(PeopleReported(existing_report, new_user_id)))]

\* report_service.py:260: update(update_dict).eq("report_id", ...)
ApplyUpdate(row, update_dict) ==
    [row EXCEPT !.user_ids = update_dict.user_ids,
                !.people_reported = update_dict.people_reported,
                !.images = update_dict.images,
                !.criticality_score = update_dict.criticality_score]

\* reports.py:89-100: report_data built from the analysis of a submission
ReportData(ai_result, image_url, location) ==
    [category          |-> ai_result.category,
     images            |-> <<image_url>>,
     location          |-> location,
     criticality_score |-> ai_result.criticality_score]

StoreIdle == reports = <<>> /\ nextId = 0 /\ nextImage = 0

InitStore == StoreIdle

\* reports.py:18-129 and report_service.py:20-49: a submission that is accepted.
\* The image is uploaded, analysed, and a report row is inserted.  (A submission
\* that ends in an error response inserts no row: the table is left as it is.)
ReportIssue(u, location, det, impact_score) ==
    /\ nextImage < MaxSubmissions
    /\ nextId' = nextId + 1
    /\ nextImage' = nextImage + 1
    /\ LET image_url   == nextImage + 1
           report_id   == nextId + 1
           ai_result   == ProcessReportImage(det, impact_score, Some(0), 1)
           report_data == ReportData(ai_result, image_url, location)
       IN  reports' = [id \in DOMAIN reports \cup {report_id} |->
                         IF id = report_id
                         THEN CreateReportRow(report_id, u, report_data)
                         ELSE reports[id]]

\* report_service.py:238-269: merge_reports(existing_report, new_report_data,
\* new_user_id), called with the stored row of report e and the report_data of
\* a new submission by u.
MergeReports(e, u, det, impact_score) ==
    /\ e \in DOMAIN reports
    /\ nextImage < MaxSubmissions
    /\ nextImage' = nextImage + 1
    /\ UNCHANGED nextId
    /\ LET image_url       == nextImage + 1
           existing_report == reports[e]
           ai_result       == ProcessReportImage(det, impact_score, Some(0), 1)
           new_report_data == ReportData(ai_result, image_url, existing_report.location)
           update_dict     == MergeUpdate(existing_report, new_report_data, u)
       IN  reports' = [reports EXCEPT ![e] = ApplyUpdate(existing_report, update_dict)]

\* admin.py:206-264 and report_service.py:167-192
UpdateReportStatus(e, status) ==
    /\ e \in DOMAIN reports
    /\ reports' = [reports EXCEPT ![e].status = status]
    /\ UNCHANGED <<nextId, nextImage>>

\* admin.py:267-310 and report_service.py:271-282
DeleteReport(e) ==
    /\ e \in DOMAIN reports
    /\ reports' = [id \in DOMAIN reports \ {e} |-> reports[id]]
    /\ UNCHANGED <<nextId, nextImage>>

\* admin.py:314-361 and report_service.py:284-310: deleting a user deletes
\* every report that has the user among its reporters
DeleteUserReports(user_id) ==
    /\ \E id \in DOMAIN reports : BagIn(user_id, reports[id].user_ids)
    /\ reports' = [id \in {r \in DOMAIN reports : ~BagIn(user_id, reports[r].user_ids)}
                      |-> reports[id]]
    /\ UNCHANGED <<nextId, nextImage>>

(***************************************************************************)
(* merge_reports as a function of its arguments.                           *)
(***************************************************************************)

\* Largest number of reporters of an existing report drawn.
MaxPeople == 7

CriticalityInputs == {1, 5, 35, 65, 70, 71, 85, 96, 100}

MergeIdle == mergeIn = None /\ mergeOut = None

InitMerge ==
    /\ mergeIn \in
         {Some([existing_report |->
                    [report_id |-> 1, user_ids |-> SetToBag(1..k), people_reported |-> k,
                     category |-> "potholes", images |-> <<1>>, location |-> 0,
                     criticality_score |-> c, status |-> "waiting_for_attention"],
                new_report_data |->
                    [category |-> "potholes", images |-> <<2>>, location |-> 0,
                     criticality_score |-> n],
                new_user_id |-> u]) :
            k \in 1..MaxPeople, c \in CriticalityInputs, n \in CriticalityInputs,
            u \in 1..(MaxPeople + 1)}
    /\ mergeOut = None

\* report_service.py:242-257: one call, up to the update it sends
MergeReportsCall ==
    /\ mergeIn # None
    /\ mergeOut = None
    /\ mergeOut' = Some(MergeUpdate(mergeIn[1].existing_report,
                                    mergeIn[1].new_report_data,
                                    mergeIn[1].new_user_id))
    /\ UNCHANGED mergeIn

(***************************************************************************)
(* The report_issue request, with the ways its image analysis can end.     *)
(***************************************************************************)

\* How process_image ends: it returns an analysis, a detector raises, the
\* image is neither a PIL image nor bytes, GOOGLE_API_KEY is not set, or the
\* request to the text model raises.
AnalysisOutcomes ==
    {"ok", "detector_raises", "unsupported_image", "no_api_key", "text_service_raises"}

\* final.py:88-90, 168-172, 229-234: the "error" entry of the dictionary
\* process_image returns, None when it returns an analysis
ProcessImageError(outcome) ==
    CASE outcome = "unsupported_image"  -> Some("Unsupported image format")
      [] outcome = "no_api_key"         -> Some("No GOOGLE_API_KEY found")
      [] outcome \in {"detector_raises", "text_service_raises"}
                                        -> Some("Processing failed")
      [] OTHER                          -> None

\* a pipeline that gives up only when process_image found no text service
ImageAnalysisFailsWithoutTextOnly(outcome) ==
    outcome \in {"no_api_key", "text_service_raises"}

\* ai_service.py:79-92: process_report_image raises RuntimeError when
\* process_image raised or returned a dictionary with an "error" entry
ImageAnalysisFails(outcome) == ProcessImageError(outcome) # None

SubIdle == subOut = None

InitSub == SubIdle

\* reports.py:18-147: one report_issue request with valid coordinates and a
\* valid image, by user u.  The image is uploaded first; when the analysis
\* fails the handler answers 500 (lines 131-139) and inserts nothing,
\* otherwise it inserts the report and answers with its id and scores.
ReportIssueRequest(u, location, det, impact_score, outcome) ==
    IF ImageAnalysisFails(outcome)
    THEN /\ nextImage < MaxSubmissions
         /\ nextImage' = nextImage + 1
         /\ UNCHANGED <<reports, nextId>>
         /\ subOut' = Some([outcome |-> outcome, image_url |-> nextImage + 1,
                            status_code |-> 500, data |-> None])
    ELSE /\ ReportIssue(u, location, det, impact_score)
         /\ LET ai_result == ProcessReportImage(det, impact_score, Some(0), 1)
            IN  subOut' = Some([outcome |-> outcome, image_url |-> nextImage + 1,
                                status_code |-> 200,
                                data |-> Some([report_id |-> nextId + 1,
                                               category |-> ai_result.category,
                                               severity_score |-> ai_result.severity_score,
                                               criticality_score |->
                                                   ai_result.criticality_score])])

(***************************************************************************)
(* The two detector tasks of process_image and the thread that waits for   *)
(* them (final.py:95-234).  A task is queued by executor.submit, taken by  *)
(* a pool thread, and ends with a (confidence, severity) result or with an *)
(* exception.                                                              *)
(***************************************************************************)

Detectors == {"pothole", "trash"}

\* What a detector task can end with: a result, or None for an exception.
DetectorResults ==
    {None} \cup {Some(r) : r \in {[conf |-> 900, sev |-> 900], [conf |-> 400, sev |-> 500],
                                  [conf |-> 700, sev |-> 100], [conf |-> 200, sev |-> 600]}}

\* a future that has not produced anything
NoResult == [conf |-> 0, sev |-> 0]

\* concurrent.futures: the future is in a final state
FutureDone(future) == future.state \in {"finished", "raised"}

\* a wait that is over as soon as the task has been taken by a pool thread
FutureStarted(future) == future.state \in {"running", "finished", "raised"}

\* final.py:105-106: Future.result() blocks until the future is done
ResultAvailable(future) == FutureDone(future)

JoinIdle ==
    /\ futures = [d \in Detectors |-> [state |-> "none", result |-> NoResult]]
    /\ joinPc = "idle"
    /\ joinOut = None

InitJoin ==
    /\ futures = [d \in Detectors |-> [state |-> "none", result |-> NoResult]]
    /\ joinPc = "submit_pothole"
    /\ joinOut = None

\* final.py:98-100: executor.submit(lambda: pothole_infer(image_path))
SubmitPothole ==
    /\ joinPc = "submit_pothole"
    /\ futures' = [futures EXCEPT !["pothole"].state = "queued"]
    /\ joinPc' = "submit_trash"
    /\ UNCHANGED joinOut

\* final.py:101-103: executor.submit(lambda: analyze_waste(image_path))
SubmitTrash ==
    /\ joinPc = "submit_trash"
    /\ futures' = [futures EXCEPT !["trash"].state = "queued"]
    /\ joinPc' = "wait_pothole"
    /\ UNCHANGED joinOut

\* a pool thread takes the task of detector d
StartTask(d) ==
    /\ futures[d].state = "queued"
    /\ futures' = [futures EXCEPT ![d].state = "running"]
    /\ UNCHANGED <<joinPc, joinOut>>

\* the task of detector d ends, with a result or with an exception
EndTask(d, r) ==
    /\ futures[d].state = "running"
    /\ futures' = [futures EXCEPT ![d] =
                      IF r = None
                      THEN [state |-> "raised", result |-> NoResult]
                      ELSE [state |-> "finished", result |-> r[1]]]
    /\ UNCHANGED <<joinPc, joinOut>>

\* final.py:105: pothole_future.result(); an exception of the task is raised
\* here, inside the with block
WaitPothole ==
    /\ joinPc = "wait_pothole"
    /\ ResultAvailable(futures["pothole"])
    /\ joinPc' = IF futures["pothole"].state = "raised"
                 THEN "exit_raising" ELSE "wait_trash"
    /\ UNCHANGED <<futures, joinOut>>

\* final.py:106: trash_future.result()
WaitTrash ==
    /\ joinPc = "wait_trash"
    /\ ResultAvailable(futures["trash"])
    /\ joinPc' = IF futures["trash"].state = "raised"
                 THEN "exit_raising" ELSE "exit"
    /\ UNCHANGED <<futures, joinOut>>

\* final.py:97: leaving the with block calls executor.shutdown(wait=True),
\* which returns when every submitted task has ended; an exception raised in
\* the block then reaches the except clause (lines 229-234), which returns
\* {"error": ...}
ExitExecutor ==
    /\ joinPc \in {"exit", "exit_raising"}
    /\ \A d \in Detectors : FutureDone(futures[d])
    /\ IF joinPc = "exit_raising"
       THEN /\ joinPc' = "returned"
            /\ joinOut' = Some([error |-> TRUE, analysis |-> None])
       ELSE /\ joinPc' = "fuse"
            /\ UNCHANGED joinOut
    /\ UNCHANGED futures

\* final.py:108-227: the results of the two futures are fused
FuseResults ==
    /\ joinPc = "fuse"
    /\ joinPc' = "returned"
    /\ joinOut' = Some([error |-> FALSE,
                        analysis |-> Some(FusedAnalysis(futures["pothole"].result.conf,
                                                        futures["pothole"].result.sev,
                                                        futures["trash"].result.conf,
                                                        futures["trash"].result.sev))])
    /\ UNCHANGED futures

(***************************************************************************)
(* Concurrent calls of calculate_impact_score on one cache database.       *)
(* Every get_cache and set_cache opens its own connection; SQLite runs the *)
(* SELECT as one read and the REPLACE with its commit as one write         *)
(* transaction, and a connection that finds the database locked waits.     *)
(* No time passes during the calls.                                        *)
(***************************************************************************)

\* Number of concurrent calls.
MaxCalls == 2

Calls == 1..MaxCalls

\* a plain INSERT, which leaves the rows already stored under the key
InsertRow(rows, key, row) == rows \cup {[key |-> key, row |-> row]}

\* impact.py:22-28, 49: key is the PRIMARY KEY of the table, and REPLACE
\* deletes the row stored under the key before it inserts the new one
ReplaceRow(rows, key, row) ==
    {r \in rows : r.key # key} \cup {[key |-> key, row |-> row]}

\* impact.py:37-43: the fresh rows the SELECT of get_cache finds under key
FreshRows(rows, key) == {r \in rows : r.key = key /\ IsFresh(r.row, clock)}

RaceIdle ==
    /\ raceTable = {}
    /\ raceLock = 0
    /\ raceCalls = <<>>
    /\ lastWriter = <<>>

InitRace ==
    /\ raceTable = {}
    /\ raceLock = 0
    /\ raceCalls \in [Calls -> {[pc |-> "get_cache", key |-> key, result |-> None]
                                  : key \in ImpactKeys}]
    /\ lastWriter = [key \in ImpactKeys |-> 0]

\* impact.py:65-69: get_cache; on a hit the call returns the stored value
RaceGetCache(c) ==
    /\ raceCalls[c].pc = "get_cache"
    /\ raceLock = 0
    /\ LET found == FreshRows(raceTable, raceCalls[c].key)
       IN  IF found # {}
           THEN \E r \in found :
                   raceCalls' = [raceCalls EXCEPT ![c].pc = "returned",
                                   ![c].result = Some([r.row.value EXCEPT !.source = "cache"])]
           ELSE raceCalls' = [raceCalls EXCEPT ![c].pc = "providers"]
    /\ UNCHANGED <<raceTable, raceLock, lastWriter>>

\* impact.py:77-154: the two provider requests and the computation
RaceCompute(c, pop_resp, road_resp) ==
    /\ raceCalls[c].pc = "providers"
    /\ raceCalls' = [raceCalls EXCEPT ![c].pc = "set_cache",
                       ![c].result = Some(LiveResult(raceCalls[c].key, pop_resp, road_resp))]
    /\ UNCHANGED <<raceTable, raceLock, lastWriter>>

\* impact.py:47-49: set_cache executes the REPLACE; the connection takes the
\* write lock, waiting while another connection holds it
RaceBeginWrite(c) ==
    /\ raceCalls[c].pc = "set_cache"
    /\ raceLock = 0
    /\ raceLock' = c
    /\ raceCalls' = [raceCalls EXCEPT ![c].pc = "commit"]
    /\ UNCHANGED <<raceTable, lastWriter>>

\* impact.py:51-52, 163: the commit makes the row visible and releases the
\* lock; the call returns its result
RaceCommit(c) ==
    /\ raceCalls[c].pc = "commit"
    /\ raceLock = c
    /\ raceTable' = ReplaceRow(raceTable, raceCalls[c].key,
                               CacheRow(raceCalls[c].result[1]))
    /\ lastWriter' = [lastWriter EXCEPT ![raceCalls[c].key] = c]
    /\ raceLock' = 0
    /\ raceCalls' = [raceCalls EXCEPT ![c].pc = "returned"]

(***************************************************************************)
(* The calls one report_issue request makes, in order (reports.py:18-147). *)
(* Coordinates are in whole degrees.  get_public_url builds the URL        *)
(* locally and is taken to answer.                                         *)
(***************************************************************************)

LatitudeInputs == {-91, -90, 0, 90, 91}
LongitudeInputs == {-181, -180, 0, 180, 181}
\* image_service.py:42-92: save_image_from_data stores the image, or stores
\* nothing because the file is no valid image (400) or the storage fails (500)
UploadOutcomes == {"stored", "invalid_image", "storage_fails"}
\* len(image_data) against the 10 MB limit of reports.py:66-75
ImageSizes == {"within_limit", "too_large"}
\* create_report inserts the row, or raises
InsertOutcomes == {"inserted", "raises"}

\* latitude checked against the range of a longitude
LatitudeInLongitudeRange(latitude) == -180 <= latitude /\ latitude <= 180

\* reports.py:28: -90 <= latitude <= 90
ValidLatitude(latitude) == -90 <= latitude /\ latitude <= 90

\* reports.py:33: -180 <= longitude <= 180
ValidLongitude(longitude) == -180 <= longitude /\ longitude <= 180

\* a handler that forgets the image when the analysis fails
CleanupCallsExceptAnalysis(req) ==
    IF req.image_size = "within_limit" /\ ImageAnalysisFails(req.outcome)
    THEN <<>>
    ELSE <<"delete_from_supabase">>

\* reports.py:55-75, 109-116, 131-139: the delete_from_supabase calls of a
\* request that fails after the upload.  An HTTPException raised inside the
\* inner try block is itself caught by its "except Exception" clause, which
\* deletes once more.
CleanupCalls(req) ==
    IF req.image_size = "too_large"
    THEN <<"delete_from_supabase", "delete_from_supabase">>
    ELSE <<"delete_from_supabase">>

\* reports.py:26-147: the response of report_issue to request req, with the
\* Location object it built and the calls it made
ReportIssueCalls(req) ==
    IF ~ValidLatitude(req.latitude) \/ ~ValidLongitude(req.longitude)
    THEN [status_code |-> 400, location |-> None, uploaded |-> FALSE, calls |-> <<>>]
    ELSE LET location == Some([lat |-> req.latitude, lon |-> req.longitude])
         IN  IF req.upload # "stored"
             THEN [status_code |-> IF req.upload = "invalid_image" THEN 400 ELSE 500,
                   location |-> location, uploaded |-> FALSE,
                   calls |-> <<"save_image_from_data">>]
             ELSE IF req.image_size = "too_large"
             THEN [status_code |-> 500, location |-> location, uploaded |-> TRUE,
                   calls |-> <<"save_image_from_data">> \o CleanupCalls(req)]
             ELSE IF ImageAnalysisFails(req.outcome)
             THEN [status_code |-> 500, location |-> location, uploaded |-> TRUE,
                   calls |-> <<"save_image_from_data", "process_report_image">>
                             \o CleanupCalls(req)]
             ELSE IF req.insert = "raises"
             THEN [status_code |-> 500, location |-> location, uploaded |-> TRUE,
                   calls |-> <<"save_image_from_data", "process_report_image",
                               "create_report">> \o CleanupCalls(req)]
             ELSE [status_code |-> 200, location |-> location, uploaded |-> TRUE,
                   calls |-> <<"save_image_from_data", "process_report_image",
                               "create_report">>]

ReqIdle == reqIn = None /\ reqOut = None

InitReq ==
    /\ reqIn \in {Some(req) : req \in [latitude : LatitudeInputs,
                                       longitude : LongitudeInputs,
                                       upload : UploadOutcomes,
                                       image_size : ImageSizes,
                                       outcome : AnalysisOutcomes,
                                       insert : InsertOutcomes]}
    /\ reqOut = None

\* reports.py:18-147: the request is handled
HandleReportIssue ==
    /\ reqIn # None
    /\ reqOut = None
    /\ reqOut' = Some(ReportIssueCalls(reqIn[1]))
    /\ UNCHANGED reqIn

(***************************************************************************)
(* find_nearby_reports as a function of the stored reports and its         *)
(* arguments.                                                              *)
(***************************************************************************)

\* Places at 0 m, exactly 50 m and 51 m from the reference point.
NearbyPoints == {0, 50, 51}
NearbyIds == {1, 2}
NearbyCategories == {"potholes", "trash_overflow"}
\* the rows of the table, as far as find_nearby_reports reads them
NearbyRows == [category : NearbyCategories, status : Statuses, location : NearbyPoints]

NearIdle == nearIn = None /\ nearOut = None

InitNear ==
    /\ nearIn \in {Some(a) : a \in [table : [NearbyIds -> NearbyRows],
                                    location : {0},
                                    radius_meters : {DefaultRadiusMeters},
                                    category : {None} \cup {Some(c) : c \in NearbyCategories}]}
    /\ nearOut = None

\* report_service.py:194-236: one call of find_nearby_reports
FindNearbyReportsCall ==
    /\ nearIn # None
    /\ nearOut = None
    /\ nearOut' = Some(NearbyIn(nearIn[1].table, nearIn[1].location,
                                nearIn[1].radius_meters, nearIn[1].category))
    /\ UNCHANGED nearIn

(***************************************************************************)
(* The urgency normalisation of compute_criticality_score, called for two  *)
(* ages one after the other.                                               *)
(***************************************************************************)

\* Ages of whole days, from one day in the future to past the 30-day cap, and
\* no age.
UrgencyAges ==
    {None} \cup {Some(d * SecondsPerDay) : d \in {-1, 0, 1, 2, 15, 29, 30, 45}}

UrgIdle == urgIn = <<>> /\ urgOut = <<>>

InitUrg ==
    /\ urgIn \in [1..2 -> UrgencyAges]
    /\ urgOut = <<>>

\* criticality_score.py:79-86: the urgency of the next call
NormalizeUrgencyCall ==
    /\ Len(urgOut) < Len(urgIn)
    /\ urgOut' = Append(urgOut, UrgencyNorm(urgIn[Len(urgOut) + 1]))
    /\ UNCHANGED urgIn

(***************************************************************************)
(* process_report_image called for two submissions one after the other,    *)
(* both new (age 0, report count 1).                                       *)
(***************************************************************************)

\* Detector results whose fused severity_score is 10, 17, 50 and 90.
PipelineDetections ==
    { [pothole_conf |-> 1000, pothole_sev |-> 100, trash_conf |-> 0,   trash_sev |-> 0],
      [pothole_conf |-> 700,  pothole_sev |-> 100, trash_conf |-> 200, trash_sev |-> 500],
      [pothole_conf |-> 1000, pothole_sev |-> 500, trash_conf |-> 0,   trash_sev |-> 0],
      [pothole_conf |-> 900,  pothole_sev |-> 900, trash_conf |-> 0,   trash_sev |-> 0] }

PipeIdle == pipeIn = <<>> /\ pipeOut = <<>>

InitPipe ==
    /\ pipeIn \in [1..2 -> [det : PipelineDetections, impact_score : ImpactScores]]
    /\ pipeOut = <<>>

\* ai_service.py:77-132: the next submission is processed
ProcessReportImageCall ==
    /\ Len(pipeOut) < Len(pipeIn)
    /\ LET next == pipeIn[Len(pipeOut) + 1]
       IN  pipeOut' = Append(pipeOut,
                             ProcessReportImage(next.det, next.impact_score, Some(0), 1))
    /\ UNCHANGED pipeIn

(***************************************************************************)
(* Priority reports (report_service.py:150-165, admin.py:12-24).  The      *)
(* query filters on status, orders by criticality_score descending and     *)
(* keeps the first `limit` rows; the database breaks ties in any order.    *)
(***************************************************************************)
DefaultPriorityLimit == 4

PriorityIds == 1..5
PriorityScores == {10, 50}
PriorityRows == [status : Statuses, criticality_score : PriorityScores]

AnyStatusIds(table) == DOMAIN table

\* .eq("status", ReportStatus.WAITING_FOR_ATTENTION.value)
WaitingIds(table) ==
    {i \in DOMAIN table : table[i].status = "waiting_for_attention"}

\* .order("criticality_score", desc=True): every order of the rows in `ids`
\* with scores non-increasing
RECURSIVE OrderByScoreDesc(_, _)
OrderByScoreDesc(table, ids) ==
    IF ids = {} THEN {<<>>}
    ELSE UNION {{<<i>> \o s : s \in OrderByScoreDesc(table, ids \ {i})} :
                i \in {j \in ids : \A k \in ids :
                          table[j].criticality_score >= table[k].criticality_score}}

\* .limit(limit)
LimitRows(s, limit) == SubSeq(s, 1, IF Len(s) < limit THEN Len(s) ELSE limit)

\* the lists get_priority_reports can return; [] when the query raises
GetPriorityReports(table, limit, db) ==
    IF db = "fails" THEN {<<>>}
    ELSE {LimitRows(s, limit) : s \in OrderByScoreDesc(table, WaitingIds(table))}

PrioIdle == prioIn = None /\ prioOut = None

InitPrio ==
    /\ prioIn \in {Some(a) : a \in [table : [PriorityIds -> PriorityRows],
                                    db : {"ok", "fails"}]}
    /\ prioOut = None

\* admin.py:23: report_service.get_priority_reports() with the default limit
GetPriorityReportsCall ==
    /\ prioIn # None
    /\ prioOut = None
    /\ \E r \in GetPriorityReports(prioIn[1].table, DefaultPriorityLimit, prioIn[1].db) :
          prioOut' = Some(r)
    /\ UNCHANGED prioIn

(***************************************************************************)
(* Concurrent merges (report_service.py:238-269).  Each call is given the  *)
(* report as its caller read it, builds the whole update from that         *)
(* snapshot (lines 242-257) and writes it over the stored row (line 260).  *)
(***************************************************************************)
Mergers == {1, 2}
MergerUsers == 1..5
OriginalPeople == 1..3
OriginalCriticalities == {35, 96}
NewCriticalities == {5, 71}

OriginalReport(k, c) ==
    [report_id |-> 1, user_ids |-> SetToBag(1..k), people_reported |-> k,
     category |-> "potholes", images |-> <<1>>, location |-> 0,
     criticality_score |-> c, status |-> "waiting_for_attention"]

WriteRowFromStored(stored, existing_report, new_report_data, new_user_id) ==
    ApplyUpdate(stored, MergeUpdate(stored, new_report_data, new_user_id))

\* report_service.py:242-260: the update is computed from existing_report,
\* the caller's copy, and replaces the fields of the stored row
WriteRow(stored, existing_report, new_report_data, new_user_id) ==
    ApplyUpdate(stored, MergeUpdate(existing_report, new_report_data, new_user_id))

LostIdle == mrgRow = None /\ mrgCalls = <<>> /\ mrgWrites = <<>>

InitLost ==
    /\ mrgRow \in {Some(OriginalReport(k, c)) : k \in OriginalPeople, c \in OriginalCriticalities}
    /\ mrgCalls \in {f \in [Mergers -> [pc : {"start"}, existing_report : {None},
                                        read_after : {0},
                                        new_report_data : [category : {"potholes"}, images : {<<2>>, <<3>>},
                                                           location : {0},
                                                           criticality_score : NewCriticalities],
                                        new_user_id : MergerUsers]] :
                        /\ f[1].new_user_id # f[2].new_user_id
                        /\ \A c \in Mergers : f[c].new_report_data.images = <<1 + c>>}
    /\ mrgWrites = <<>>

\* the caller obtains the existing report that it passes to merge_reports
MergeRead(c) ==
    /\ mrgCalls[c].pc = "start"
    /\ mrgCalls' = [mrgCalls EXCEPT ![c].pc = "read", ![c].existing_report = mrgRow,
                                    ![c].read_after = Len(mrgWrites)]
    /\ UNCHANGED <<mrgRow, mrgWrites>>

\* report_service.py:238-263: merge_reports computes and writes the update
MergeWrite(c) ==
    /\ mrgCalls[c].pc = "read"
    /\ mrgRow' = Some(WriteRow(mrgRow[1], mrgCalls[c].existing_report[1],
                               mrgCalls[c].new_report_data, mrgCalls[c].new_user_id))
    /\ mrgWrites' = Append(mrgWrites, c)
    /\ mrgCalls' = [mrgCalls EXCEPT ![c].pc = "done"]

(***************************************************************************)
(* Cached list responses (reports.py:158-204, admin.py:12-153) and the     *)
(* writes that change what they list (reports.py:18-129, admin.py:206-     *)
(* 311).  Handlers are taken one at a time; a cache entry expires after    *)
(* its TTL.  Requests use the default filters and pagination.              *)
(***************************************************************************)
MaxListed == 2

ListUsers == {1, 2}
ListIds == 1..MaxListed
\* the status filter of a list request (the default, none) and the status an
\* admin sets
ListFilters == {None}
ListStatusUpdates == {"got_the_attention"}

\* reports.py:160: f"user:{user_id}:reports:{category}:{status}:{limit}:{offset}"
UserReportsKey(u, status_filter) == <<"user:reports", u, status_filter>>
\* admin.py:66: f"admin:reports:{status_filter}:{category}:{limit}:{offset}"
AdminReportsKey(status_filter) == <<"admin:reports", status_filter>>
\* admin.py:17
PriorityReportsKey == <<"admin:priority_reports">>
\* admin.py:122
ReportsSummaryKey == <<"admin:reports_summary">>

UserReportsKeys(u) == {UserReportsKey(u, f) : f \in ListFilters}
AdminReportsKeys == {AdminReportsKey(f) : f \in ListFilters}
ListKeys ==
    (UNION {UserReportsKeys(u) : u \in ListUsers}) \cup AdminReportsKeys
        \cup {PriorityReportsKey, ReportsSummaryKey}

StoredIds(table) == {i \in DOMAIN table : table[i] # None}

\* report_service.py:89-90, 133-134: query.eq("status", status) when given
MatchesStatus(row, status_filter) ==
    status_filter = None \/ row.status = status_filter[1]

ListedRows(table, ids) == {[report_id |-> i, status |-> table[i][1].status] : i \in ids}

\* report_service.py:70-115 as listed by reports.py:167-197
UserReportsResponse(table, u, status_filter) ==
    ListedRows(table, {i \in StoredIds(table) :
                          /\ table[i][1].user_id = u
                          /\ MatchesStatus(table[i][1], status_filter)})

\* report_service.py:117-148 as listed by admin.py:73-104
AdminReportsResponse(table, status_filter) ==
    ListedRows(table, {i \in StoredIds(table) : MatchesStatus(table[i][1], status_filter)})

\* report_service.py:150-165 as listed by admin.py:23-42
PriorityReportsResponse(table) ==
    ListedRows(table, {i \in StoredIds(table) :
                          table[i][1].status = "waiting_for_attention"})

\* report_service.py:312-360 as listed by admin.py:129-149
ReportsSummaryResponse(table) ==
    [total_active |-> Cardinality(StoredIds(table)),
     waiting_for_attention |->
         Cardinality({i \in StoredIds(table) : table[i][1].status = "waiting_for_attention"}),
     got_the_attention |->
         Cardinality({i \in StoredIds(table) : table[i][1].status = "got_the_attention"})]

\* the response a handler builds from the database
ResponseFromDatabase(table, key) ==
    CASE key[1] = "user:reports" -> UserReportsResponse(table, key[2], key[3])
      [] key[1] = "admin:reports" -> AdminReportsResponse(table, key[2])
      [] key[1] = "admin:priority_reports" -> PriorityReportsResponse(table)
      [] key[1] = "admin:reports_summary" -> ReportsSummaryResponse(table)

\* admin.py:237-245: the keys deleted after a status update; the pattern
\* "admin:reports:*" is skipped by the test `"*" not in key`
StatusUpdateDeletes == {PriorityReportsKey, ReportsSummaryKey}

\* admin.py:289-295: the keys deleted after a report deletion
DeleteReportDeletes == {PriorityReportsKey, ReportsSummaryKey}

\* reports.py:18-129: report_issue deletes no cache key
ReportIssueDeletes(u) == {}

DeleteKeys(c, keys) == [k \in ListKeys |-> IF k \in keys THEN None ELSE c[k]]

ListIdle ==
    lcReports = <<>> /\ lcNext = 0 /\ lcCache = <<>> /\ lcOwed = {} /\ lcOut = None

InitList ==
    /\ lcReports = [i \in ListIds |-> None]
    /\ lcNext = 0
    /\ lcCache = [k \in ListKeys |-> None]
    /\ lcOwed = {}
    /\ lcOut = None

\* reports.py:158-204, admin.py:12-48, 56-109, 117-155: a list handler
\* returns the cached response when there is one, else builds the response
\* from the database and caches it
ServeList(key) ==
    /\ lcNext > 0
    /\ LET response == IF lcCache[key] # None THEN lcCache[key][1]
                       ELSE ResponseFromDatabase(lcReports, key)
       IN  /\ lcCache' = [lcCache EXCEPT ![key] = Some(response)]
           /\ lcOut' = Some([key |-> key, response |-> response,
                             database |-> ResponseFromDatabase(lcReports, key),
                             owed |-> key \in lcOwed])
    /\ lcOwed' = lcOwed \ {key}
    /\ UNCHANGED <<lcReports, lcNext>>

\* reports.py:18-129: a submission by u that succeeds
ListReportIssue(u) ==
    /\ lcNext < MaxListed
    /\ lcNext' = lcNext + 1
    /\ lcReports' = [lcReports EXCEPT ![lcNext + 1] =
                        Some([user_id |-> u, status |-> "waiting_for_attention"])]
    /\ lcCache' = DeleteKeys(lcCache, ReportIssueDeletes(u))
    /\ lcOwed' = lcOwed \cup UserReportsKeys(u)
    /\ lcOut' = None

\* admin.py:206-265: a status update that succeeds
ListUpdateReportStatus(i, status) ==
    /\ lcReports[i] # None
    /\ lcReports[i][1].status # status
    /\ lcReports' = [lcReports EXCEPT ![i] = Some([lcReports[i][1] EXCEPT !.status = status])]
    /\ lcCache' = DeleteKeys(lcCache, StatusUpdateDeletes)
    /\ lcOwed' = lcOwed \cup {PriorityReportsKey, ReportsSummaryKey} \cup AdminReportsKeys
    /\ lcOut' = None
    /\ UNCHANGED lcNext

\* admin.py:267-311: a deletion that succeeds
ListDeleteReport(i) ==
    /\ lcReports[i] # None
    /\ lcReports' = [lcReports EXCEPT ![i] = None]
    /\ lcCache' = DeleteKeys(lcCache, DeleteReportDeletes)
    /\ lcOwed' = lcOwed \cup {PriorityReportsKey, ReportsSummaryKey} \cup AdminReportsKeys
    /\ lcOut' = None
    /\ UNCHANGED lcNext

\* redis_client.py:70: setex; the entry disappears when its TTL has passed
ExpireKey(key) ==
    /\ lcCache[key] # None
    /\ lcCache' = [lcCache EXCEPT ![key] = None]
    /\ lcOut' = None
    /\ UNCHANGED <<lcReports, lcNext, lcOwed>>

(***************************************************************************)
(* Specifications.                                                         *)
(***************************************************************************)

Init == InitStore /\ FuseIdle /\ CritIdle /\ MergeIdle /\ AggIdle /\ ImpIdle /\ SubIdle /\ JoinIdle /\ RaceIdle /\ ReqIdle /\ NearIdle /\ UrgIdle /\ PipeIdle /\ PrioIdle /\ LostIdle /\ ListIdle

Next ==
    \/ \E u \in Users, location \in Points, det \in DetectionInputs,
          impact_score \in ImpactScores :
          ReportIssue(u, location, det, impact_score)
          /\ UNCHANGED <<fuseVars, critVars, mergeVars, aggVars, impVars, subVars, joinVars, raceVars, reqVars, nearVars, urgVars, pipeVars, prioVars, lostVars, listVars>>
    \/ \E e \in DOMAIN reports, u \in Users, det \in DetectionInputs,
          impact_score \in ImpactScores :
          MergeReports(e, u, det, impact_score)
          /\ UNCHANGED <<fuseVars, critVars, mergeVars, aggVars, impVars, subVars, joinVars, raceVars, reqVars, nearVars, urgVars, pipeVars, prioVars, lostVars, listVars>>
    \/ \E e \in DOMAIN reports, status \in Statuses :
          UpdateReportStatus(e, status) /\ UNCHANGED <<fuseVars, critVars, mergeVars, aggVars, impVars, subVars, joinVars, raceVars, reqVars, nearVars, urgVars, pipeVars, prioVars, lostVars, listVars>>
    \/ \E e \in DOMAIN reports :
          DeleteReport(e) /\ UNCHANGED <<fuseVars, critVars, mergeVars, aggVars, impVars, subVars, joinVars, raceVars, reqVars, nearVars, urgVars, pipeVars, prioVars, lostVars, listVars>>
    \/ \E user_id \in Users :
          DeleteUserReports(user_id) /\ UNCHANGED <<fuseVars, critVars, mergeVars, aggVars, impVars, subVars, joinVars, raceVars, reqVars, nearVars, urgVars, pipeVars, prioVars, lostVars, listVars>>

Spec == Init /\ [][Next]_vars

InitFusion == StoreIdle /\ InitFuse /\ CritIdle /\ MergeIdle /\ AggIdle /\ ImpIdle /\ SubIdle /\ JoinIdle /\ RaceIdle /\ ReqIdle /\ NearIdle /\ UrgIdle /\ PipeIdle /\ PrioIdle /\ LostIdle /\ ListIdle
NextFusion == ProcessImage /\ UNCHANGED <<storeVars, critVars, mergeVars, aggVars, impVars, subVars, joinVars, raceVars, reqVars, nearVars, urgVars, pipeVars, prioVars, lostVars, listVars>>
SpecFusion == InitFusion /\ [][NextFusion]_vars

InitCriticality == StoreIdle /\ FuseIdle /\ InitCrit /\ MergeIdle /\ AggIdle /\ ImpIdle /\ SubIdle /\ JoinIdle /\ RaceIdle /\ ReqIdle /\ NearIdle /\ UrgIdle /\ PipeIdle /\ PrioIdle /\ LostIdle /\ ListIdle
NextCriticality ==
    ComputeCriticality /\ UNCHANGED <<storeVars, fuseVars, mergeVars, aggVars, impVars, subVars, joinVars, raceVars, reqVars, nearVars, urgVars, pipeVars, prioVars, lostVars, listVars>>
SpecCriticality == InitCriticality /\ [][NextCriticality]_vars

InitMergeCall ==
    StoreIdle /\ FuseIdle /\ CritIdle /\ InitMerge /\ AggIdle /\ ImpIdle /\ SubIdle /\ JoinIdle /\ RaceIdle /\ ReqIdle /\ NearIdle /\ UrgIdle /\ PipeIdle /\ PrioIdle /\ LostIdle /\ ListIdle
NextMergeCall ==
    MergeReportsCall /\ UNCHANGED <<storeVars, fuseVars, critVars, aggVars, impVars, subVars, joinVars, raceVars, reqVars, nearVars, urgVars, pipeVars, prioVars, lostVars, listVars>>
SpecMerge == InitMergeCall /\ [][NextMergeCall]_vars

InitAggregate ==
    StoreIdle /\ FuseIdle /\ CritIdle /\ MergeIdle /\ InitAgg /\ ImpIdle /\ SubIdle /\ JoinIdle /\ RaceIdle /\ ReqIdle /\ NearIdle /\ UrgIdle /\ PipeIdle /\ PrioIdle /\ LostIdle /\ ListIdle
NextAggregate ==
    \/ GetConfidenceAndSeverity /\ UNCHANGED <<storeVars, fuseVars, critVars, mergeVars, impVars, subVars, joinVars, raceVars, reqVars, nearVars, urgVars, pipeVars, prioVars, lostVars, listVars>>
    \/ AnalyzeWaste /\ UNCHANGED <<storeVars, fuseVars, critVars, mergeVars, impVars, subVars, joinVars, raceVars, reqVars, nearVars, urgVars, pipeVars, prioVars, lostVars, listVars>>
SpecAggregate == InitAggregate /\ [][NextAggregate]_vars

InitImpact ==
    StoreIdle /\ FuseIdle /\ CritIdle /\ MergeIdle /\ AggIdle /\ InitImp /\ SubIdle /\ JoinIdle /\ RaceIdle /\ ReqIdle /\ NearIdle /\ UrgIdle /\ PipeIdle /\ PrioIdle /\ LostIdle /\ ListIdle
NextImpact ==
    \/ \E key \in ImpactKeys, pop_resp \in PopulationResponses,
          road_resp \in RoadResponses, db \in DbOutcomes :
          CalculateImpactScore(key, pop_resp, road_resp, db)
          /\ UNCHANGED <<storeVars, fuseVars, critVars, mergeVars, aggVars, subVars, joinVars, raceVars, reqVars, nearVars, urgVars, pipeVars, prioVars, lostVars, listVars>>
    \/ \E d \in TickInputs :
          Tick(d) /\ UNCHANGED <<storeVars, fuseVars, critVars, mergeVars, aggVars, subVars, joinVars, raceVars, reqVars, nearVars, urgVars, pipeVars, prioVars, lostVars, listVars>>
SpecImpact == InitImpact /\ [][NextImpact]_vars

InitSubmit ==
    InitStore /\ FuseIdle /\ CritIdle /\ MergeIdle /\ AggIdle /\ ImpIdle /\ InitSub /\ JoinIdle /\ RaceIdle /\ ReqIdle /\ NearIdle /\ UrgIdle /\ PipeIdle /\ PrioIdle /\ LostIdle /\ ListIdle
NextSubmit ==
    \/ \E u \in Users, location \in Points, det \in DetectionInputs,
          impact_score \in ImpactScores, outcome \in AnalysisOutcomes :
          ReportIssueRequest(u, location, det, impact_score, outcome)
          /\ UNCHANGED <<fuseVars, critVars, mergeVars, aggVars, impVars, joinVars, raceVars, reqVars, nearVars, urgVars, pipeVars, prioVars, lostVars, listVars>>
    \/ \E e \in DOMAIN reports :
          DeleteReport(e)
          /\ UNCHANGED <<fuseVars, critVars, mergeVars, aggVars, impVars, subVars, joinVars, raceVars, reqVars, nearVars, urgVars, pipeVars, prioVars, lostVars, listVars>>
SpecSubmit == InitSubmit /\ [][NextSubmit]_vars

InitJoinCall ==
    StoreIdle /\ FuseIdle /\ CritIdle /\ MergeIdle /\ AggIdle /\ ImpIdle /\ SubIdle /\ InitJoin /\ RaceIdle /\ ReqIdle /\ NearIdle /\ UrgIdle /\ PipeIdle /\ PrioIdle /\ LostIdle /\ ListIdle
NextJoin ==
    \/ SubmitPothole /\ UNCHANGED <<storeVars, fuseVars, critVars, mergeVars, aggVars, impVars, subVars, raceVars, reqVars, nearVars, urgVars, pipeVars, prioVars, lostVars, listVars>>
    \/ SubmitTrash /\ UNCHANGED <<storeVars, fuseVars, critVars, mergeVars, aggVars, impVars, subVars, raceVars, reqVars, nearVars, urgVars, pipeVars, prioVars, lostVars, listVars>>
    \/ \E d \in Detectors :
          StartTask(d) /\ UNCHANGED <<storeVars, fuseVars, critVars, mergeVars, aggVars, impVars, subVars, raceVars, reqVars, nearVars, urgVars, pipeVars, prioVars, lostVars, listVars>>
    \/ \E d \in Detectors, r \in DetectorResults :
          EndTask(d, r) /\ UNCHANGED <<storeVars, fuseVars, critVars, mergeVars, aggVars, impVars, subVars, raceVars, reqVars, nearVars, urgVars, pipeVars, prioVars, lostVars, listVars>>
    \/ WaitPothole /\ UNCHANGED <<storeVars, fuseVars, critVars, mergeVars, aggVars, impVars, subVars, raceVars, reqVars, nearVars, urgVars, pipeVars, prioVars, lostVars, listVars>>
    \/ WaitTrash /\ UNCHANGED <<storeVars, fuseVars, critVars, mergeVars, aggVars, impVars, subVars, raceVars, reqVars, nearVars, urgVars, pipeVars, prioVars, lostVars, listVars>>
    \/ ExitExecutor /\ UNCHANGED <<storeVars, fuseVars, critVars, mergeVars, aggVars, impVars, subVars, raceVars, reqVars, nearVars, urgVars, pipeVars, prioVars, lostVars, listVars>>
    \/ FuseResults /\ UNCHANGED <<storeVars, fuseVars, critVars, mergeVars, aggVars, impVars, subVars, raceVars, reqVars, nearVars, urgVars, pipeVars, prioVars, lostVars, listVars>>
SpecJoin == InitJoinCall /\ [][NextJoin]_vars

InitCacheRace ==
    StoreIdle /\ FuseIdle /\ CritIdle /\ MergeIdle /\ AggIdle /\ ImpIdle /\ SubIdle /\ JoinIdle /\ InitRace /\ ReqIdle /\ NearIdle /\ UrgIdle /\ PipeIdle /\ PrioIdle /\ LostIdle /\ ListIdle
NextCacheRace ==
    \/ \E c \in Calls :
          RaceGetCache(c) /\ UNCHANGED <<storeVars, fuseVars, critVars, mergeVars, aggVars, impVars, subVars, joinVars, reqVars, nearVars, urgVars, pipeVars, prioVars, lostVars, listVars>>
    \/ \E c \in Calls, pop_resp \in PopulationResponses, road_resp \in RoadResponses :
          RaceCompute(c, pop_resp, road_resp)
          /\ UNCHANGED <<storeVars, fuseVars, critVars, mergeVars, aggVars, impVars, subVars, joinVars, reqVars, nearVars, urgVars, pipeVars, prioVars, lostVars, listVars>>
    \/ \E c \in Calls :
          RaceBeginWrite(c) /\ UNCHANGED <<storeVars, fuseVars, critVars, mergeVars, aggVars, impVars, subVars, joinVars, reqVars, nearVars, urgVars, pipeVars, prioVars, lostVars, listVars>>
    \/ \E c \in Calls :
          RaceCommit(c) /\ UNCHANGED <<storeVars, fuseVars, critVars, mergeVars, aggVars, impVars, subVars, joinVars, reqVars, nearVars, urgVars, pipeVars, prioVars, lostVars, listVars>>
SpecCacheRace == InitCacheRace /\ [][NextCacheRace]_vars

InitRequest ==
    StoreIdle /\ FuseIdle /\ CritIdle /\ MergeIdle /\ AggIdle /\ ImpIdle /\ SubIdle /\ JoinIdle /\ RaceIdle /\ InitReq /\ NearIdle /\ UrgIdle /\ PipeIdle /\ PrioIdle /\ LostIdle /\ ListIdle
NextRequest ==
    HandleReportIssue /\ UNCHANGED <<storeVars, fuseVars, critVars, mergeVars, aggVars, impVars, subVars, joinVars, raceVars, nearVars, urgVars, pipeVars, prioVars, lostVars, listVars>>
SpecRequest == InitRequest /\ [][NextRequest]_vars

InitNearby ==
    StoreIdle /\ FuseIdle /\ CritIdle /\ MergeIdle /\ AggIdle /\ ImpIdle /\ SubIdle /\ JoinIdle /\ RaceIdle /\ ReqIdle /\ InitNear /\ UrgIdle /\ PipeIdle /\ PrioIdle /\ LostIdle /\ ListIdle
NextNearby ==
    FindNearbyReportsCall /\ UNCHANGED <<storeVars, fuseVars, critVars, mergeVars, aggVars, impVars, subVars, joinVars, raceVars, reqVars, urgVars, pipeVars, prioVars, lostVars, listVars>>
SpecNearby == InitNearby /\ [][NextNearby]_vars

InitUrgency ==
    StoreIdle /\ FuseIdle /\ CritIdle /\ MergeIdle /\ AggIdle /\ ImpIdle /\ SubIdle /\ JoinIdle /\ RaceIdle /\ ReqIdle /\ NearIdle /\ InitUrg /\ PipeIdle /\ PrioIdle /\ LostIdle /\ ListIdle
NextUrgency ==
    NormalizeUrgencyCall /\ UNCHANGED <<storeVars, fuseVars, critVars, mergeVars, aggVars, impVars, subVars, joinVars, raceVars, reqVars, nearVars, pipeVars, prioVars, lostVars, listVars>>
SpecUrgency == InitUrgency /\ [][NextUrgency]_vars

InitPipeline ==
    StoreIdle /\ FuseIdle /\ CritIdle /\ MergeIdle /\ AggIdle /\ ImpIdle /\ SubIdle /\ JoinIdle /\ RaceIdle /\ ReqIdle /\ NearIdle /\ UrgIdle /\ InitPipe /\ PrioIdle /\ LostIdle /\ ListIdle
NextPipeline ==
    ProcessReportImageCall /\ UNCHANGED <<storeVars, fuseVars, critVars, mergeVars, aggVars, impVars, subVars, joinVars, raceVars, reqVars, nearVars, urgVars, prioVars, lostVars, listVars>>
SpecPipeline == InitPipeline /\ [][NextPipeline]_vars

InitPriority ==
    StoreIdle /\ FuseIdle /\ CritIdle /\ MergeIdle /\ AggIdle /\ ImpIdle /\ SubIdle /\ JoinIdle /\ RaceIdle /\ ReqIdle /\ NearIdle /\ UrgIdle /\ PipeIdle /\ InitPrio /\ LostIdle /\ ListIdle
NextPriority ==
    GetPriorityReportsCall /\ UNCHANGED <<storeVars, fuseVars, critVars, mergeVars, aggVars, impVars, subVars, joinVars, raceVars, reqVars, nearVars, urgVars, pipeVars, lostVars, listVars>>
SpecPriority == InitPriority /\ [][NextPriority]_vars

InitLostUpdate ==
    StoreIdle /\ FuseIdle /\ CritIdle /\ MergeIdle /\ AggIdle /\ ImpIdle /\ SubIdle /\ JoinIdle /\ RaceIdle /\ ReqIdle /\ NearIdle /\ UrgIdle /\ PipeIdle /\ PrioIdle /\ InitLost /\ ListIdle
NextLostUpdate ==
    /\ \E c \in Mergers : MergeRead(c) \/ MergeWrite(c)
    /\ UNCHANGED <<storeVars, fuseVars, critVars, mergeVars, aggVars, impVars, subVars, joinVars, raceVars, reqVars, nearVars, urgVars, pipeVars, prioVars, listVars>>
SpecLostUpdate == InitLostUpdate /\ [][NextLostUpdate]_vars

InitListCache ==
    StoreIdle /\ FuseIdle /\ CritIdle /\ MergeIdle /\ AggIdle /\ ImpIdle /\ SubIdle /\ JoinIdle /\ RaceIdle /\ ReqIdle /\ NearIdle /\ UrgIdle /\ PipeIdle /\ PrioIdle /\ LostIdle /\ InitList
NextListCache ==
    /\ \/ \E key \in ListKeys : ServeList(key)
       \/ \E u \in ListUsers : ListReportIssue(u)
       \/ \E i \in ListIds, status \in ListStatusUpdates : ListUpdateReportStatus(i, status)
       \/ \E i \in ListIds : ListDeleteReport(i)
       \/ \E key \in ListKeys : ExpireKey(key)
    /\ UNCHANGED <<storeVars, fuseVars, critVars, mergeVars, aggVars, impVars, subVars, joinVars, raceVars, reqVars, nearVars, urgVars, pipeVars, prioVars, lostVars>>
SpecListCache == InitListCache /\ [][NextListCache]_vars

(***************************************************************************)
(* Claims.                                                                 *)
(***************************************************************************)

\* C1: a report_issue submission by a second user, at coordinates within 50 m
\* of the only stored report (still open, one reporter, one image), leaves
\* exactly one stored report, with people_reported = 2 and two images: the
\* submission is merged, no second row is created.
C1_DuplicateSubmissionMerged ==
    [][\A u \in Users, location \in Points, det \in DetectionInputs,
          impact_score \in ImpactScores, e \in DOMAIN reports :
          ( /\ ReportIssue(u, location, det, impact_score)
            /\ DOMAIN reports = {e}
            /\ e \in FindNearbyReports(location, DefaultRadiusMeters, None)
            /\ reports[e].people_reported = 1
            /\ Len(reports[e].images) = 1
            /\ ~BagIn(u, reports[e].user_ids) )
          => ( /\ DOMAIN reports' = {e}
               /\ reports'[e].people_reported = 2
               /\ Len(reports'[e].images) = 2 )]_vars

\* C2: for every merge_reports call the criticality written is at least the
\* existing report's criticality and at least the incoming submission's, and
\* at most 100.
C2_MergeEscalationMonotonicBounded ==
    mergeOut # None =>
        /\ mergeOut[1].criticality_score >= mergeIn[1].existing_report.criticality_score
        /\ mergeOut[1].criticality_score >= mergeIn[1].new_report_data.criticality_score
        /\ mergeOut[1].criticality_score <= 100

\* C2 witness: a merge whose escalated sum exceeds 100 and is written as 100.
C2_Witness ==
    /\ mergeOut # None
    /\ mergeIn[1].existing_report.criticality_score = 96
    /\ mergeIn[1].new_report_data.criticality_score = 71
    /\ mergeOut[1].criticality_score = 100

\* C3: the criticality merge_reports writes is
\* min(100, max(existing, incoming) + min(5 * n, 30)), n being the number of
\* reporters after the union with the new user.
C3_MergedCriticalityFormula ==
    mergeOut # None =>
        LET existing == mergeIn[1].existing_report
            n == Cardinality(BagToSet(existing.user_ids) \cup {mergeIn[1].new_user_id})
            base == IF existing.criticality_score
                        >= mergeIn[1].new_report_data.criticality_score
                    THEN existing.criticality_score
                    ELSE mergeIn[1].new_report_data.criticality_score
            crowd == IF 5 * n <= 30 THEN 5 * n ELSE 30
        IN  mergeOut[1].criticality_score
                = (IF base + crowd <= 100 THEN base + crowd ELSE 100)

\* C3 witness: a seventh reporter joins six, so 5 * n = 35 is cut to 30, and
\* the sum stays under 100.
C3_Witness ==
    /\ mergeOut # None
    /\ mergeIn[1].existing_report.people_reported = 6
    /\ mergeIn[1].new_user_id = 7
    /\ mergeIn[1].existing_report.criticality_score = 35
    /\ mergeIn[1].new_report_data.criticality_score = 5
    /\ mergeOut[1].people_reported = 7
    /\ mergeOut[1].criticality_score = 65

\* C4: every stored report has people_reported >= 1, people_reported equal to
\* the number of distinct ids in user_ids (which holds no id twice), and at
\* least one image; every operation keeps a report's images as a prefix of its
\* images afterwards, and a merge by a user already in user_ids leaves
\* people_reported as it was.
C4_ReportersAndImages ==
    /\ [](\A id \in DOMAIN reports :
            /\ reports[id].people_reported >= 1
            /\ reports[id].people_reported = Cardinality(BagToSet(reports[id].user_ids))
            /\ reports[id].people_reported = BagCardinality(reports[id].user_ids)
            /\ Len(reports[id].images) >= 1)
    /\ [][/\ \A id \in DOMAIN reports \cap DOMAIN reports' :
                /\ Len(reports[id].images) <= Len(reports'[id].images)
                /\ \A i \in 1..Len(reports[id].images) :
                      reports[id].images[i] = reports'[id].images[i]
          /\ \A e \in DOMAIN reports, u \in Users :
                (BagIn(u, reports[e].user_ids)
                 /\ \E det \in DetectionInputs, impact_score \in ImpactScores :
                       MergeReports(e, u, det, impact_score))
                => reports'[e].people_reported = reports[e].people_reported]_vars

\* C4 witness: a report merged once by its own reporter: two images, one reporter.
C4_Witness ==
    \E id \in DOMAIN reports :
        Len(reports[id].images) = 2 /\ reports[id].people_reported = 1

C6_CriticalityInRange ==
    (critOut # None /\ critOut[1].error = "") =>
        /\ critOut[1].criticality \in 1..100
        /\ (critIn[1].severity = 0 /\ critIn[1].impact = 0
            /\ critIn[1].age_seconds = None /\ critIn[1].report_count = 1)
           => critOut[1].criticality = 1

\* C7: a weight override whose sum is <= 0 (all zero included) makes
\* compute_criticality_score raise ValueError; nothing is divided by the sum
\* and no result is returned.
C7_ZeroWeightsRejected ==
    (critOut # None /\ critIn[1].weights # None
        /\ critIn[1].weights[1].impact + critIn[1].weights[1].urgency
             + critIn[1].weights[1].reports <= 0)
    => (critOut[1].error = "ValueError" /\ critOut[1].criticality = 0)

\* C7 witness: the call with all-zero weights has been made.
C7_Witness ==
    /\ critOut # None
    /\ critIn[1].weights = Some([impact |-> 0, urgency |-> 0, reports |-> 0])
    /\ critOut[1].error = "ValueError"

\* C8: for severity 0.9, impact 90, age 2 days, report_count 1 and no weights
\* passed, the weights used are impact 0.4 / urgency 0.4 / reports 0.2 and the
\* criticality is in the high 80s to high 90s.
C8_ScenarioReweightedHigh ==
    ( /\ critOut # None
      /\ critIn[1].severity = 90
      /\ critIn[1].impact = 90
      /\ critIn[1].age_seconds = Some(2 * SecondsPerDay)
      /\ critIn[1].report_count = 1
      /\ critIn[1].weights = None )
    => /\ critOut[1].weights = [impact |-> 8, urgency |-> 8, reports |-> 4]
       /\ critOut[1].criticality \in 85..99

\* C9: regime 1 is selected exactly when one hazard has severity >= 0.7 and
\* confidence >= 0.6; then the overall severity is the larger severity and the
\* overall confidence the larger confidence.
C9_Regime1 ==
    fuseOut # None =>
        LET d == fuseIn[1]
            dominant == \/ (d.pothole_sev >= 700 /\ d.pothole_conf >= 600)
                        \/ (d.trash_sev >= 700 /\ d.trash_conf >= 600)
        IN  /\ (fuseOut[1].regime = 1) <=> dominant
            /\ dominant =>
                 /\ fuseOut[1].severity >= d.pothole_sev
                 /\ fuseOut[1].severity >= d.trash_sev
                 /\ fuseOut[1].severity \in {d.pothole_sev, d.trash_sev}
                 /\ fuseOut[1].confidence >= d.pothole_conf
                 /\ fuseOut[1].confidence >= d.trash_conf
                 /\ fuseOut[1].confidence \in {d.pothole_conf, d.trash_conf}

\* C9 witness: the pothole is severe and confident, the trash more severe but
\* unconfident: regime 1 fires and reports the trash severity and the pothole
\* confidence.
C9_Witness ==
    /\ fuseOut # None
    /\ fuseIn[1] = [pothole_conf |-> 600, pothole_sev |-> 700,
                    trash_conf |-> 500, trash_sev |-> 900]
    /\ fuseOut[1].regime = 1
    /\ fuseOut[1].severity = 900
    /\ fuseOut[1].confidence = 600

\* C10: when no hazard is both severe (>= 0.7) and confident (>= 0.6) and both
\* severities are >= 0.4, the overall severity is min(1, (sevA + sevB)/2 + 0.2)
\* and the overall confidence (confA + confB)/2; regime 2 is never selected when
\* regime 1's condition holds.
C10_Regime2 ==
    fuseOut # None =>
        LET d == fuseIn[1]
            dominant == \/ (d.pothole_sev >= 700 /\ d.pothole_conf >= 600)
                        \/ (d.trash_sev >= 700 /\ d.trash_conf >= 600)
            \* twice the average plus the bonus, to stay in integers
            twice == d.pothole_sev + d.trash_sev + 400
        IN  /\ (~dominant /\ d.pothole_sev >= 400 /\ d.trash_sev >= 400) =>
                 /\ fuseOut[1].regime = 2
                 /\ 2 * fuseOut[1].severity = (IF twice <= 2000 THEN twice ELSE 2000)
                 /\ 2 * fuseOut[1].confidence = d.pothole_conf + d.trash_conf
            /\ dominant => fuseOut[1].regime # 2

\* C10 witness: two severe but unconfident hazards: regime 2, the sum 1.1 cut
\* to 1.0.
C10_Witness ==
    /\ fuseOut # None
    /\ fuseIn[1] = [pothole_conf |-> 500, pothole_sev |-> 900,
                    trash_conf |-> 300, trash_sev |-> 900]
    /\ fuseOut[1].regime = 2
    /\ fuseOut[1].severity = 1000
    /\ fuseOut[1].confidence = 400

\* C11: when neither regime 1 nor regime 2 applies, the overall severity is
\* min(1, confA * sevA + confB * sevB) and the overall confidence is the
\* confidence of the hazard with the higher severity; when the two severities
\* are equal it is the confidence of one of the two hazards.
C11_DefaultRegime ==
    fuseOut # None =>
        LET d == fuseIn[1]
            dominant == \/ (d.pothole_sev >= 700 /\ d.pothole_conf >= 600)
                        \/ (d.trash_sev >= 700 /\ d.trash_conf >= 600)
            moderate == d.pothole_sev >= 400 /\ d.trash_sev >= 400
            \* the discounted sum in millionths
            discounted == d.pothole_conf * d.pothole_sev + d.trash_conf * d.trash_sev
        IN  (~dominant /\ ~moderate) =>
              /\ fuseOut[1].regime = 3
              /\ 1000 * fuseOut[1].severity
                   = (IF discounted <= 1000000 THEN discounted ELSE 1000000)
              /\ d.pothole_sev > d.trash_sev => fuseOut[1].confidence = d.pothole_conf
              /\ d.trash_sev > d.pothole_sev => fuseOut[1].confidence = d.trash_conf
              /\ d.pothole_sev = d.trash_sev
                   => fuseOut[1].confidence \in {d.pothole_conf, d.trash_conf}

\* C11 witness: a confident mild pothole beside unconfident heavier litter: the
\* default branch gives severity 0.9 * 0.3 + 0.2 * 0.6 = 0.39 and the litter's
\* confidence.
C11_Witness ==
    /\ fuseOut # None
    /\ fuseIn[1] = [pothole_conf |-> 900, pothole_sev |-> 300,
                    trash_conf |-> 200, trash_sev |-> 600]
    /\ fuseOut[1].regime = 3
    /\ fuseOut[1].severity = 390
    /\ fuseOut[1].confidence = 200

\* C12: the category is the hazard with the higher confidence if that
\* confidence exceeds 0.5, else the hazard with the higher confidence if both
\* confidences exceed 0.3, and "potholes" in every other case, equal
\* confidences included; it is the same whichever regime fired.
C12_Category ==
    fuseOut # None =>
        LET pc == fuseIn[1].pothole_conf
            tc == fuseIn[1].trash_conf
        IN  fuseOut[1].category =
              (IF pc > tc /\ (pc > 500 \/ tc > 300) THEN "potholes"
               ELSE IF tc > pc /\ (tc > 500 \/ pc > 300) THEN "trash_overflow"
               ELSE "potholes")

\* C13: each severity aggregator returns exactly (0.0, 0.0) when the detector
\* found no box, and otherwise the largest box confidence and a severity of at
\* most 1.0.
C13_AggregatorEmptyAndMax ==
    aggOut # None =>
        LET boxes == aggIn[1].boxes
        IN  IF boxes = <<>>
            THEN aggOut[1].confidence = 0 /\ aggOut[1].severity = 0
            ELSE /\ \E i \in DOMAIN boxes : aggOut[1].confidence = boxes[i].conf
                 /\ \A i \in DOMAIN boxes : aggOut[1].confidence >= boxes[i].conf
                 /\ aggOut[1].severity <= 1000000

\* C13 witness: two potholes covering the image, confidences 0.6 and 1.0: the
\* sum 1.76 is cut to 1.0 and the confidence is 1.0.
C13_Witness ==
    /\ aggOut # None
    /\ aggIn[1].detector = "pothole"
    /\ aggIn[1].boxes = <<[label |-> "pothole", conf |-> 600, area |-> 100],
                          [label |-> "pothole", conf |-> 1000, area |-> 100]>>
    /\ aggOut[1].confidence = 1000
    /\ aggOut[1].severity = 1000000

\* C14: analyze_waste returns a severity of at least 0.6 whenever some box is
\* hazardous with confidence above 0.5, whatever the area and count sums, and
\* never more than 1.0.
C14_HazardousFloor ==
    (aggOut # None /\ aggIn[1].detector = "trash") =>
        /\ aggOut[1].severity <= 1000000
        /\ (\E i \in DOMAIN aggIn[1].boxes :
               /\ aggIn[1].boxes[i].label \in HAZARDOUS
               /\ aggIn[1].boxes[i].conf > 500)
           => aggOut[1].severity >= 600000

\* C14 witness: one small battery at confidence 0.6: the sums give 0.036 and
\* the severity returned is 0.6.
C14_Witness ==
    /\ aggOut # None
    /\ aggIn[1].detector = "trash"
    /\ aggIn[1].boxes = <<[label |-> "battery", conf |-> 600, area |-> 1]>>
    /\ aggOut[1].severity = 600000

\* C15: the weight of a box is 1.0 for a hazardous label, 0.7 for a recyclable
\* one, 0.5 for a non-recyclable one and 0.5 for a label in none of the lists;
\* seen on the severity analyze_waste returns for a single box,
\* weight * conf * (area + 0.05), cut to 1.0 and lifted to 0.6 by the hazardous
\* override.
C15_CategoryWeightsAsStated ==
    (aggOut # None /\ aggIn[1].detector = "trash" /\ Len(aggIn[1].boxes) = 1) =>
        LET b == aggIn[1].boxes[1]
            weight == CASE b.label \in HAZARDOUS -> 10
                        [] b.label \in RECYCLABLE -> 7
                        [] b.label \in NON_RECYCLABLE -> 5
                        [] OTHER -> 5
            sum == weight * b.conf * (b.area + 5)
            capped == IF sum <= 1000000 THEN sum ELSE 1000000
        IN  aggOut[1].severity =
              (IF b.label \in HAZARDOUS /\ b.conf > 500 /\ capped < 600000
               THEN 600000 ELSE capped)



\* C16: when both density providers fail or return no data on a cache miss,
\* calculate_impact_score returns population_estimate = 1200 * radius_km^2,
\* vehicle_estimate = 800 * radius_km, a source that is not "live", and an
\* impact_score in 1..100 that depends on the radius only.
C16_AllProvidersFail ==
    (/\ impOut # None
     /\ impOut[1].error = ""
     /\ impOut[1].requests # <<>>
     /\ \A i \in 1..2 : impOut[1].requests[i].response \in {None, Some(0)})
    => LET result == impOut[1].result[1]
           radius_km == impOut[1].key.radius_km
       IN  /\ result.population_estimate = 1200 * radius_km * radius_km
           /\ result.vehicle_estimate = 800 * radius_km
           /\ result.source # "live"
           /\ result.impact_score \in 1..100
           /\ result.impact_score = (IF radius_km = 1 THEN 29 ELSE 25)

\* C17: on a cache miss both providers are requested whatever the other one
\* answers; a failure or an empty answer of one provider replaces only its own
\* estimate by the default, the other estimate is the other provider's value;
\* and no provider answer makes the call raise.
C17_IndependentFallback ==
    /\ (impOut # None /\ impOut[1].requests # <<>>) =>
          /\ Len(impOut[1].requests) = 2
          /\ impOut[1].requests[1].provider = "worldpop"
          /\ impOut[1].requests[2].provider = "overpass"
          /\ impOut[1].error \in {"", "sqlite3.Error"}
    /\ (impOut # None /\ impOut[1].requests # <<>> /\ impOut[1].error = "") =>
          LET pop_resp == impOut[1].requests[1].response
              road_resp == impOut[1].requests[2].response
              radius_km == impOut[1].key.radius_km
          IN  /\ impOut[1].result # None
              /\ impOut[1].result[1].population_estimate =
                   (IF pop_resp \in {None, Some(0)}
                    THEN 1200 * radius_km * radius_km ELSE pop_resp[1])
              /\ impOut[1].result[1].vehicle_estimate =
                   (IF road_resp \in {None, Some(0)}
                    THEN 800 * radius_km ELSE 20 * road_resp[1])

\* C17 witness: at radius 1 the population provider failed and the road
\* provider answered 100 roads: the population is the default 1200 and the
\* vehicles are the provider's 2000.
C17_Witness ==
    /\ impOut # None
    /\ impOut[1].error = ""
    /\ impOut[1].key.radius_km = 1
    /\ impOut[1].requests = <<[provider |-> "worldpop", response |-> None],
                              [provider |-> "overpass", response |-> Some(100)]>>
    /\ impOut[1].result[1].population_estimate = 1200
    /\ impOut[1].result[1].vehicle_estimate = 2000

\* C18 as stated: with the cache database working and the stored value
\* decodable, a call made less than CACHE_TTL after the row under its key was
\* written makes no provider request and returns the stored estimate with
\* source "cache"; a call made once the row is CACHE_TTL or more old recomputes
\* and overwrites it.  Ages are counted from the instant of the write.
C18_CacheWithinTtlOfWrite ==
    (impOut # None /\ impOut[1].error = "" /\ impOut[1].seen # None) =>
        IF impOut[1].at - impOut[1].seen[1] < 2 * CACHE_TTL
        THEN /\ impOut[1].requests = <<>>
             /\ impOut[1].result[1] =
                  [cache[impOut[1].key].value EXCEPT !.source = "cache"]
        ELSE /\ impOut[1].requests # <<>>
             /\ impOut[1].result[1].source = "live"
             /\ cache[impOut[1].key].written_at >= impOut[1].at

\* C18 amended: the same, with the age of a row counted from its stored
\* timestamp, which is the instant of the write cut down to a whole second.
C18_CacheWithinTtlOfStoredSecond ==
    (impOut # None /\ impOut[1].error = "" /\ impOut[1].seen # None) =>
        IF impOut[1].at - 2 * (impOut[1].seen[1] \div 2) < 2 * CACHE_TTL
        THEN /\ impOut[1].requests = <<>>
             /\ impOut[1].result[1] =
                  [cache[impOut[1].key].value EXCEPT !.source = "cache"]
             /\ cache[impOut[1].key].written_at = impOut[1].seen[1]
        ELSE /\ impOut[1].requests # <<>>
             /\ impOut[1].result[1].source = "live"
             /\ cache[impOut[1].key].written_at >= impOut[1].at
             /\ cache[impOut[1].key].written_at = impOut[1].at
                  => cache[impOut[1].key].value = impOut[1].result[1]

\* C18 witness: a row written on a whole second is found by a call 86399.5
\* seconds later, which asks no provider and answers from the cache.
C18_Witness ==
    /\ impOut # None
    /\ impOut[1].error = ""
    /\ impOut[1].seen = Some(0)
    /\ impOut[1].at = 2 * CACHE_TTL - 1
    /\ impOut[1].requests = <<>>
    /\ impOut[1].result[1].source = "cache"

\* C19: a failure of the cache (the read or the write raises, or the stored
\* value cannot be decoded) is never fatal: no call of calculate_impact_score
\* raises, and every call returns an estimate; the one returned after a cache
\* failure is computed from the providers as on a miss.
C19_CacheFailureIsMiss ==
    impOut # None =>
        /\ impOut[1].error = ""
        /\ impOut[1].result # None
        /\ impOut[1].result[1].source = "live" => impOut[1].requests # <<>>

\* C20: when the image analysis fails (a detector raises, the image type is
\* unsupported, or the text service is unavailable) report_issue answers with
\* an error, carries no severity or criticality in its answer, and no stored
\* report holds the image of the failed submission.
C20_AnalysisFailureFailsSubmission ==
    (subOut # None /\ subOut[1].outcome # "ok") =>
        /\ subOut[1].status_code = 500
        /\ subOut[1].data = None
        /\ \A id \in DOMAIN reports :
              \A i \in 1..Len(reports[id].images) :
                  reports[id].images[i] # subOut[1].image_url
        /\ Cardinality(DOMAIN reports) < nextImage
        /\ nextId < nextImage

\* C20 witness: after one accepted submission, a second one whose detector
\* raised was answered 500 and the table still holds the first report only.
C20_Witness ==
    /\ subOut # None
    /\ subOut[1].outcome = "detector_raises"
    /\ subOut[1].status_code = 500
    /\ subOut[1].image_url = 2
    /\ DOMAIN reports = {1}
    /\ reports[1].images = <<1>>
    /\ nextId = 1

\* C21: in every interleaving of the two detector tasks, fusion starts only
\* when both tasks have ended with a result, the fused analysis returned is
\* the fusion of both results, and when either task raised process_image
\* returns an error and no fused analysis.
C21_FusionAfterBothDetectors ==
    /\ joinPc = "fuse" => \A d \in Detectors : futures[d].state = "finished"
    /\ joinOut # None =>
          /\ \A d \in Detectors : FutureDone(futures[d])
          /\ (\E d \in Detectors : futures[d].state = "raised")
                => (joinOut[1].error /\ joinOut[1].analysis = None)
          /\ (\A d \in Detectors : futures[d].state = "finished")
                => /\ ~joinOut[1].error
                   /\ joinOut[1].analysis =
                        Some(FusedAnalysis(futures["pothole"].result.conf,
                                           futures["pothole"].result.sev,
                                           futures["trash"].result.conf,
                                           futures["trash"].result.sev))

\* C21 witness: the pothole task ended with (0.9, 0.9), the trash task raised,
\* and process_image returned an error.
C21_Witness ==
    /\ joinOut # None
    /\ joinOut[1].error
    /\ futures["pothole"] = [state |-> "finished", result |-> [conf |-> 900, sev |-> 900]]
    /\ futures["trash"].state = "raised"

\* C22: under every interleaving of concurrent calculate_impact_score calls
\* the cache holds at most one row per key, that row is the complete result
\* of the call whose write for the key came last, and every call that has
\* returned has returned an estimate for its key.
C22_LastWriteWins ==
    /\ \A key \in ImpactKeys :
          Cardinality({r \in raceTable : r.key = key}) <= 1
    /\ \A r \in raceTable :
          /\ lastWriter[r.key] \in Calls
          /\ raceCalls[lastWriter[r.key]].key = r.key
          /\ raceCalls[lastWriter[r.key]].result = Some(r.row.value)
          /\ \E pop_resp \in PopulationResponses, road_resp \in RoadResponses :
                r.row.value = LiveResult(r.key, pop_resp, road_resp)
    /\ \A c \in Calls :
          raceCalls[c].pc = "returned" =>
              /\ raceCalls[c].result # None
              /\ raceCalls[c].result[1].radius_km = raceCalls[c].key.radius_km
              /\ raceCalls[c].result[1].impact_score \in 1..100

\* C22 witness: both calls missed on the same key, computed different
\* estimates and wrote; the row holds the estimate of call 1, which wrote
\* last, and not the one of call 2.
C22_Witness ==
    /\ \A c \in Calls : raceCalls[c].pc = "returned"
    /\ raceCalls[1].key = raceCalls[2].key
    /\ raceCalls[1].result[1].source = "live"
    /\ raceCalls[2].result[1].source = "live"
    /\ raceCalls[1].result # raceCalls[2].result
    /\ lastWriter[raceCalls[1].key] = 1
    /\ raceTable = {[key |-> raceCalls[1].key, row |-> CacheRow(raceCalls[1].result[1])]}

\* C23: a request whose latitude is outside [-90, 90] or whose longitude is
\* outside [-180, 180] is answered 400 without any call made (no upload, no
\* analysis, no insert) and without a Location built from other coordinates;
\* a request the handler goes on with carries exactly the coordinates given.
C23_MalformedCoordinatesRejected ==
    reqOut # None =>
        /\ (reqIn[1].latitude < -90 \/ reqIn[1].latitude > 90
            \/ reqIn[1].longitude < -180 \/ reqIn[1].longitude > 180)
              => /\ reqOut[1].status_code = 400
                 /\ reqOut[1].calls = <<>>
                 /\ ~reqOut[1].uploaded
                 /\ reqOut[1].location = None
        /\ reqOut[1].location # None
              => reqOut[1].location[1] =
                   [lat |-> reqIn[1].latitude, lon |-> reqIn[1].longitude]

\* C23 witness: latitude 91 with everything else in order is answered 400
\* with no call made.
C23_Witness ==
    /\ reqOut # None
    /\ reqIn[1] = [latitude |-> 91, longitude |-> 0, upload |-> "stored",
                   image_size |-> "within_limit", outcome |-> "ok",
                   insert |-> "inserted"]
    /\ reqOut[1].status_code = 400
    /\ reqOut[1].calls = <<>>

\* C29: a request that ends without a report after its image was stored has
\* called delete_from_supabase after the upload and as its last call before
\* the error response; a request answered with success, and one whose image
\* was never stored, has not called it.
C29_NoOrphanImage ==
    reqOut # None =>
        LET calls == reqOut[1].calls
            deleted == \E i \in 1..Len(calls) : calls[i] = "delete_from_supabase"
        IN  /\ (reqOut[1].uploaded /\ reqOut[1].status_code # 200)
                  => /\ deleted
                     /\ calls[1] = "save_image_from_data"
                     /\ calls[Len(calls)] = "delete_from_supabase"
            /\ reqOut[1].status_code = 200
                  => /\ ~deleted
                     /\ reqOut[1].uploaded
                     /\ calls[Len(calls)] = "create_report"
            /\ ~reqOut[1].uploaded => ~deleted

\* C29 witness: the image was stored, the detector raised, and the handler
\* deleted the image and answered 500.
C29_Witness ==
    /\ reqOut # None
    /\ reqIn[1].upload = "stored"
    /\ reqIn[1].outcome = "detector_raises"
    /\ reqIn[1].insert = "inserted"
    /\ reqOut[1].status_code = 500
    /\ reqOut[1].calls = <<"save_image_from_data", "process_report_image",
                           "delete_from_supabase">>

C25_UrgencyClampedMonotone ==
    /\ \A i \in 1..Len(urgOut) :
          /\ urgOut[i] >= 0 /\ urgOut[i] <= 30
          /\ urgIn[i] = None => urgOut[i] = 0
          /\ (urgIn[i] # None /\ urgIn[i][1] <= 0) => urgOut[i] = 0
          /\ (urgIn[i] # None /\ urgIn[i][1] >= 30 * 86400) => urgOut[i] = 30
    /\ \A i, j \in 1..Len(urgOut) :
          (urgIn[i] # None /\ urgIn[j] # None /\ urgIn[i][1] <= urgIn[j][1])
              => urgOut[i] <= urgOut[j]

\* C25 witness: an age of one day in the future gives 0, an age of 15 days
\* gives one half.
C25_Witness ==
    /\ urgIn = <<Some(-86400), Some(15 * 86400)>>
    /\ urgOut = <<0, 15>>

\* C26: the criticality of a submission is the combiner's value for its fused
\* severity_score taken on the 0-1 scale (severity_score / 100); of two
\* submissions with the same impact the one with the lower severity_score
\* never has the higher criticality, and severity_score 10 and severity_score
\* 90 give different criticalities.
C26_SeverityOnUnitScale ==
    /\ \A i \in 1..Len(pipeOut) :
          pipeOut[i].criticality_score =
              ComputeCriticalityScore(pipeOut[i].severity_score,
                                      pipeOut[i].impact_score, Some(0), 1, None).criticality
    /\ \A i, j \in 1..Len(pipeOut) :
          pipeOut[i].impact_score = pipeOut[j].impact_score =>
              /\ pipeOut[i].severity_score <= pipeOut[j].severity_score
                    => pipeOut[i].criticality_score <= pipeOut[j].criticality_score
              /\ (pipeOut[i].severity_score = 10 /\ pipeOut[j].severity_score = 90)
                    => pipeOut[i].criticality_score # pipeOut[j].criticality_score


BothMerged ==
    /\ Len(mrgWrites) = 2
    /\ \A c \in Mergers : mrgCalls[c].pc = "done"

\* each call read the report before the other wrote
EachReadBeforeOtherWrote == \A c \in Mergers : mrgCalls[c].read_after = 0

NewToReport(c) ==
    ~BagIn(mrgCalls[c].new_user_id, mrgCalls[mrgWrites[1]].existing_report[1].user_ids)

\* C28 (as stated): when two merge_reports calls for two different users run
\* concurrently against the same report, each having read it before the other
\* wrote, the stored report ends with both user ids, both new images and
\* people_reported = original count + 2.
C28_MergesNotLost ==
    (BothMerged /\ EachReadBeforeOtherWrote /\ \A c \in Mergers : NewToReport(c)) =>
        LET original == mrgCalls[1].existing_report[1]
            final == mrgRow[1]
        IN /\ \A c \in Mergers : BagIn(mrgCalls[c].new_user_id, final.user_ids)
           /\ \A c \in Mergers :
                 \E i \in DOMAIN final.images : <<final.images[i]>> = mrgCalls[c].new_report_data.images
           /\ final.people_reported = original.people_reported + 2

\* C28 (amended): under that interleaving the stored report is the last
\* writer's update of the original: the original users plus the last writer
\* only, the original images plus the last writer's image, people_reported =
\* original count + 1; the first writer's merge is lost.  Both merges are kept
\* only when the second call read the report after the first had written.
C28_LastMergeWins ==
    (BothMerged /\ \A c \in Mergers : NewToReport(c)) =>
        LET first == mrgWrites[1]
            last == mrgWrites[2]
            original == mrgCalls[first].existing_report[1]
            final == mrgRow[1]
        IN IF EachReadBeforeOtherWrote
           THEN /\ final.user_ids = SetToBag(BagToSet(original.user_ids) \cup {mrgCalls[last].new_user_id})
                /\ ~BagIn(mrgCalls[first].new_user_id, final.user_ids)
                /\ final.images = original.images \o mrgCalls[last].new_report_data.images
                /\ final.people_reported = original.people_reported + 1
           ELSE /\ \A c \in Mergers : BagIn(mrgCalls[c].new_user_id, final.user_ids)
                /\ final.images = (original.images \o mrgCalls[first].new_report_data.images)
                                     \o mrgCalls[last].new_report_data.images
                /\ final.people_reported = original.people_reported + 2

\* two users new to a report of two people merged from the same snapshot
C28_Witness ==
    /\ BothMerged
    /\ EachReadBeforeOtherWrote
    /\ \A c \in Mergers : NewToReport(c)
    /\ mrgCalls[1].existing_report[1].people_reported = 2
    /\ mrgRow[1].people_reported = 3
    /\ mrgWrites = <<1, 2>>


\* C30: cached list responses do not hide completed writes: the first
\* get_reports response for u after a report_issue by u succeeded, and the
\* first priority-reports, reports-summary and reports-list responses after a
\* status update or a deletion succeeded, are the response the database gives
\* at that moment.
C30_ListsShowCompletedWrites ==
    (lcOut # None /\ lcOut[1].owed) => lcOut[1].response = lcOut[1].database

=============================================================================
